---- MODULE Spec2Model ----
(***************************************************************************)
(* LenteXhibit: a state-machine model of the REST handlers of the Backend  *)
(* variant (works, portfolios, themes, votes) and of the voting-theme      *)
(* routes of the "Login Backend" variant (status update, winner).          *)
(*                                                                         *)
(* The auth and users routes of both variants act on the User collection   *)
(* and on the session store.                                               *)
(*                                                                         *)
(* The document store is the state: one variable per collection.  Every    *)
(* handler is one action (the whole handler, every write it makes); the    *)
(* concurrent specification splits the vote and unvote handlers at their   *)
(* awaits.  Time is a logical clock, `now`, advanced by Tick.              *)
(***************************************************************************)
EXTENDS Naturals, Integers, Sequences, FiniteSets, TLC

VARIABLES
    now,        \* the wall clock (new Date()), a logical time
    users,      \* User collection: user id -> [exists, userType, position,
                \* isApproved, isActive, email]; outside the concurrent
                \* signups a user is named by the email it registered
    works,      \* Work collection: work id -> document
    nextWork,   \* the next fresh Work _id
    portfolios, \* Portfolio collection, keyed by its unique userId
    votes,      \* Vote collection: a set of [userId, workId, themeId]; in the
                \* concurrent specification a document also carries its _id
    themes,     \* Theme collection (Backend variant)
    vthemes,    \* VotingTheme collection (Login Backend variant)
    resp,       \* the last request and the status it was answered with
    snap,       \* history: counters before the last successful vote
    ranked,     \* the list returned by the last rankings read
    listed,     \* the themes the last request returned, if it was a theme read
    reqs,       \* in-flight requests of the concurrent specification
    sessions    \* session store: client (cookie) -> [userId, userType]

vars == <<now, users, works, nextWork, portfolios, votes, themes, vthemes,
          resp, snap, ranked, listed, reqs, sessions>>

----------------------------------------------------------------------------
(* Bounds *)

MaxTime == 4
MaxWorks == 2
MaxCount == 3   \* cap of the counters in the concurrent specification

----------------------------------------------------------------------------
(* Identifiers and enumerations *)

NoUser == "nouser"
NoTheme == "null"
NoWork == 0

UserIds == {"a", "m1", "m2"}
WorkIds == 1..MaxWorks
ThemeIds == {"t1"}

\* enum of workSchema.category
WorkCategories == {"Photos", "Graphics", "Videos"}

\* the users the seed script creates: an admin and approved members
SeedUsers ==
    [u \in UserIds |->
        [exists |-> TRUE, userType |-> IF u = "a" THEN "admin" ELSE "member",
         position |-> IF u = "a" THEN "" ELSE "Member",
         isApproved |-> TRUE, isActive |-> TRUE, email |-> u]]

\* a User slot no document occupies
NoUserDoc ==
    [exists |-> FALSE, userType |-> "-", position |-> "",
     isApproved |-> FALSE, isActive |-> FALSE, email |-> ""]

\* the browsers that hold a session cookie
Clients == {"c1", "c2"}
NoClient == "-"

\* a session without req.session.userId: never logged in, or destroyed
NoSession == [userId |-> NoUser, userType |-> "-"]
NoSessions == [c \in Clients |-> NoSession]

\* what is there before any rankings read
NoRanked == [category |-> "All", limit |-> 0, works |-> <<>>]

\* what a theme read that returned nothing leaves
NoListed ==
    [filter |-> "All", status |-> [t \in ThemeIds |-> "-"], determined |-> {}]

\* a Work slot no document occupies
NoWorkDoc ==
    [state |-> "none", userId |-> NoUser, category |-> "Photos",
     voteCount |-> 0, themeId |-> NoTheme, createdAt |-> 0,
     featured |-> FALSE]

\* a Portfolio slot no document occupies
NoPortfolio == [exists |-> FALSE, works |-> {}, totalVotes |-> 0]

\* a Theme slot no document occupies
NoThemeDoc ==
    [state |-> "none", category |-> "All", startDate |-> 0, endDate |-> 0,
     status |-> "Upcoming", submissions |-> {}]

\* a VotingTheme slot no document occupies
NoVThemeDoc ==
    [state |-> "none", startDate |-> 0, endDate |-> 0,
     status |-> "upcoming", winnerWorkId |-> NoWork]

NoResp == [op |-> "none", status |-> 0, user |-> NoUser, work |-> NoWork,
           theme |-> NoTheme, client |-> NoClient]

NoSnap == [stage |-> "none", user |-> NoUser, work |-> NoWork,
           voteCount |-> 0, owner |-> NoUser, hadPortfolio |-> FALSE,
           totalVotes |-> 0]

Reply(op, status, s, w, t) ==
    [op |-> op, status |-> status, user |-> s, work |-> w, theme |-> t,
     client |-> NoClient]

\* the answer to a request of the auth and users routers: c is the client,
\* u the user the request is about
AuthReply(c, op, status, u) ==
    [op |-> op, status |-> status, user |-> u, work |-> NoWork,
     theme |-> NoTheme, client |-> c]

Max(a, b) == IF a >= b THEN a ELSE b

----------------------------------------------------------------------------
(* Queries *)

\* Work.findById
WorkExists(w) == w \in WorkIds /\ works[w].state = "live"

\* Vote.find({ userId, workId })
VotesOf(s, w) == {v \in votes : v.userId = s /\ v.workId = w}

\* Portfolio.findOne({ userId })
HasPortfolio(u) == u \in UserIds /\ portfolios[u].exists

----------------------------------------------------------------------------
(* Work routes (Backend) *)

\* POST /api/works
CreateWork(s, category, themeId) ==
    /\ IF s = NoUser
       THEN /\ resp' = Reply("createWork", 401, s, NoWork, themeId)
            /\ UNCHANGED <<works, nextWork, portfolios>>
       ELSE IF category \notin WorkCategories
       THEN /\ resp' = Reply("createWork", 400, s, NoWork, themeId)
            /\ UNCHANGED <<works, nextWork, portfolios>>
       ELSE IF ~users[s].exists
       THEN /\ resp' = Reply("createWork", 500, s, NoWork, themeId)
            /\ UNCHANGED <<works, nextWork, portfolios>>
       ELSE IF users[s].userType # "member"
       THEN /\ resp' = Reply("createWork", 403, s, NoWork, themeId)
            /\ UNCHANGED <<works, nextWork, portfolios>>
       ELSE /\ nextWork <= MaxWorks
            /\ works' = [works EXCEPT ![nextWork] =
                    [state |-> "live", userId |-> s, category |-> category,
                     voteCount |-> 0, themeId |-> themeId, createdAt |-> now,
                     featured |-> FALSE]]
            /\ nextWork' = nextWork + 1
            /\ portfolios' = [portfolios EXCEPT ![s] =
                    IF portfolios[s].exists
                    THEN [@ EXCEPT !.works = @ \cup {nextWork}]
                    ELSE [exists |-> TRUE, works |-> {nextWork},
                          totalVotes |-> 0]]
            /\ resp' = Reply("createWork", 201, s, nextWork, themeId)
    /\ snap' = NoSnap
    /\ listed' = NoListed
    /\ UNCHANGED <<sessions, now, users, votes, themes, vthemes, ranked, reqs>>

\* DELETE /api/works/:id
DeleteWork(s, w) ==
    /\ IF s = NoUser
       THEN /\ resp' = Reply("deleteWork", 401, s, w, NoTheme)
            /\ UNCHANGED <<works, portfolios>>
       ELSE IF ~WorkExists(w)
       THEN /\ resp' = Reply("deleteWork", 404, s, w, NoTheme)
            /\ UNCHANGED <<works, portfolios>>
       ELSE IF ~users[s].exists
       THEN /\ resp' = Reply("deleteWork", 500, s, w, NoTheme)
            /\ UNCHANGED <<works, portfolios>>
       ELSE IF works[w].userId # s /\ users[s].userType # "admin"
       THEN /\ resp' = Reply("deleteWork", 403, s, w, NoTheme)
            /\ UNCHANGED <<works, portfolios>>
       ELSE /\ portfolios' = [portfolios EXCEPT ![works[w].userId] =
                    [@ EXCEPT !.works = @ \ {w}]]
            /\ works' = [works EXCEPT ![w] = [NoWorkDoc EXCEPT !.state = "deleted"]]
            /\ resp' = Reply("deleteWork", 200, s, w, NoTheme)
    /\ snap' = NoSnap
    /\ listed' = NoListed
    /\ UNCHANGED <<sessions, now, users, nextWork, votes, themes, vthemes, ranked, reqs>>

----------------------------------------------------------------------------
(* Vote routes (Backend) *)

\* POST /api/votes, the owner's portfolio: totalVotes + 1 when it exists
PortfolioAfterVote(owner) ==
    IF HasPortfolio(owner)
    THEN [portfolios EXCEPT ![owner].totalVotes = @ + 1]
    ELSE portfolios

Decrement_NoFloor(n) == n - 1

\* the floor of DELETE /api/votes/:workId: Math.max(n - 1, 0)
Decrement(n) == Max(n - 1, 0)

PortfolioAfterUnvote_NoWrite(owner) == portfolios

\* DELETE /api/votes/:workId, the owner's portfolio: totalVotes - 1, floored
PortfolioAfterUnvote(owner) ==
    IF HasPortfolio(owner)
    THEN [portfolios EXCEPT ![owner].totalVotes = Decrement(@)]
    ELSE portfolios

\* history of the last successful vote: the counters it found
SnapVote(s, w) ==
    [stage |-> "voted", user |-> s, work |-> w,
     voteCount |-> works[w].voteCount, owner |-> works[w].userId,
     hadPortfolio |-> HasPortfolio(works[w].userId),
     totalVotes |-> portfolios[works[w].userId].totalVotes]

\* the pre-check of POST /api/votes: Vote.findOne({ userId, workId })
AlreadyVoted(s, w) == VotesOf(s, w) # {}

\* POST /api/votes
Vote(s, w, themeId) ==
    /\ IF s = NoUser
       THEN /\ resp' = Reply("vote", 401, s, w, themeId)
            /\ snap' = NoSnap
            /\ UNCHANGED <<works, portfolios, votes>>
       ELSE IF w = NoWork
       THEN /\ resp' = Reply("vote", 400, s, w, themeId)
            /\ snap' = NoSnap
            /\ UNCHANGED <<works, portfolios, votes>>
       ELSE IF ~WorkExists(w)
       THEN /\ resp' = Reply("vote", 404, s, w, themeId)
            /\ snap' = NoSnap
            /\ UNCHANGED <<works, portfolios, votes>>
       ELSE IF AlreadyVoted(s, w)
       THEN /\ resp' = Reply("vote", 400, s, w, themeId)
            /\ snap' = NoSnap
            /\ UNCHANGED <<works, portfolios, votes>>
       ELSE /\ votes' = votes \cup
                    {[userId |-> s, workId |-> w, themeId |-> themeId]}
            /\ works' = [works EXCEPT ![w].voteCount = @ + 1]
            /\ portfolios' = PortfolioAfterVote(works[w].userId)
            /\ snap' = SnapVote(s, w)
            /\ resp' = Reply("vote", 200, s, w, themeId)
    /\ listed' = NoListed
    /\ UNCHANGED <<sessions, now, users, nextWork, themes, vthemes, ranked, reqs>>

FoundVotes_AnyUser(s, w) == {v \in votes : v.workId = w}

\* the query of DELETE /api/votes/:workId: Vote.findOneAndDelete({ userId, workId })
FoundVotes(s, w) == VotesOf(s, w)

\* DELETE /api/votes/:workId
Unvote(s, w) ==
    /\ IF s = NoUser
       THEN /\ resp' = Reply("unvote", 401, s, w, NoTheme)
            /\ snap' = NoSnap
            /\ UNCHANGED <<works, portfolios, votes>>
       ELSE IF FoundVotes(s, w) = {}
       THEN /\ resp' = Reply("unvote", 404, s, w, NoTheme)
            /\ snap' = NoSnap
            /\ UNCHANGED <<works, portfolios, votes>>
       ELSE \E v \in FoundVotes(s, w) :
            /\ votes' = votes \ {v}
            /\ IF WorkExists(w)
               THEN /\ works' = [works EXCEPT ![w].voteCount = Decrement(@)]
                    /\ portfolios' = PortfolioAfterUnvote(works[w].userId)
               ELSE UNCHANGED <<works, portfolios>>
            /\ snap' = IF snap.stage = "voted" /\ snap.user = s /\ snap.work = w
                       THEN [snap EXCEPT !.stage = "unvoted"]
                       ELSE NoSnap
            /\ resp' = Reply("unvote", 200, s, w, v.themeId)
    /\ listed' = NoListed
    /\ UNCHANGED <<sessions, now, users, nextWork, themes, vthemes, ranked, reqs>>

----------------------------------------------------------------------------
(* The store after start-up: seeded users, no documents *)

InitStore ==
    /\ now = 0
    /\ users = SeedUsers
    /\ works = [w \in WorkIds |-> NoWorkDoc]
    /\ nextWork = 1
    /\ portfolios = [u \in UserIds |-> NoPortfolio]
    /\ votes = {}
    /\ themes = [t \in ThemeIds |-> NoThemeDoc]
    /\ vthemes = [t \in ThemeIds |-> NoVThemeDoc]
    /\ resp = NoResp
    /\ snap = NoSnap
    /\ ranked = NoRanked
    /\ listed = NoListed
    /\ reqs = <<>>
    /\ sessions = NoSessions

----------------------------------------------------------------------------
(* SpecVote: works and votes, one request at a time *)

Sessions == {"m1", "a", NoUser}
Voters == {"m1", "m2", NoUser}

NextVote ==
    \/ \E s \in Sessions, c \in {"Photos", "Other"} : CreateWork(s, c, NoTheme)
    \/ \E s \in Voters, w \in WorkIds : DeleteWork(s, w)
    \/ \E s \in Voters, w \in WorkIds \cup {NoWork} : Vote(s, w, NoTheme)
    \/ \E w \in WorkIds, t \in ThemeIds : Vote("m2", w, t)
    \/ \E s \in Voters, w \in WorkIds : Unvote(s, w)

SpecVote == InitStore /\ [][NextVote]_vars

----------------------------------------------------------------------------
(* Theme routes (Backend) *)

NoDate == 0
ThemeDates == 1..(MaxTime - 1)

\* a guard that lets every session user through
IsAdmin_AnyUser(s) == s \in UserIds

\* isAdmin of Backend/routes/auth.js: the session user is loaded, userType admin
IsAdmin(s) == s \in UserIds /\ users[s].exists /\ users[s].userType = "admin"

ThemeExists(t) == t \in ThemeIds /\ themes[t].state = "live"

\* the status GET /api/themes computes for a theme at the current time
ListNewStatus(th) ==
    IF now < th.startDate THEN "Upcoming"
    ELSE IF now >= th.startDate /\ now <= th.endDate THEN "Active"
    ELSE IF now > th.endDate THEN "Ended"
    ELSE th.status

\* GET /api/themes?status=&category=
ListThemes(status, category) ==
    LET found == {t \in ThemeIds :
                    /\ ThemeExists(t)
                    /\ (status # "All" => themes[t].status = status)
                    /\ (category # "All" => themes[t].category = category)}
    IN  /\ themes' = [t \in ThemeIds |->
                IF t \in found
                THEN [themes[t] EXCEPT !.status = ListNewStatus(themes[t])]
                ELSE themes[t]]
        /\ listed' = [filter |-> status,
                      status |-> [t \in ThemeIds |->
                            IF t \in found THEN themes'[t].status ELSE "-"],
                      determined |-> {}]
        /\ resp' = Reply("listThemes", 200, NoUser, NoWork, NoTheme)
        /\ snap' = NoSnap
        /\ UNCHANGED <<sessions, now, users, works, nextWork, portfolios, votes,
                   vthemes, ranked, reqs>>

\* GET /api/themes/active
GetActiveTheme ==
    LET found == {t \in ThemeIds :
                    /\ ThemeExists(t)
                    /\ themes[t].startDate <= now
                    /\ themes[t].endDate >= now}
    IN  /\ IF found = {}
           THEN /\ listed' = NoListed
                /\ UNCHANGED themes
           ELSE \E t \in found :
                /\ themes' = [themes EXCEPT ![t].status = "Active"]
                /\ listed' = [NoListed EXCEPT !.status[t] = "Active"]
        /\ resp' = Reply("getActiveTheme", 200, NoUser, NoWork, NoTheme)
        /\ snap' = NoSnap
        /\ UNCHANGED <<sessions, now, users, works, nextWork, portfolios, votes,
                   vthemes, ranked, reqs>>

\* GET /api/themes/:id
GetTheme(t) ==
    /\ IF ~ThemeExists(t)
       THEN /\ resp' = Reply("getTheme", 404, NoUser, NoWork, t)
            /\ listed' = NoListed
       ELSE /\ resp' = Reply("getTheme", 200, NoUser, NoWork, t)
            /\ listed' = [NoListed EXCEPT !.status[t] = themes[t].status]
    /\ snap' = NoSnap
    /\ UNCHANGED <<sessions, now, users, works, nextWork, portfolios, votes, themes,
                   vthemes, ranked, reqs>>

\* POST /api/themes
CreateTheme(s, category, startDate, endDate) ==
    /\ IF s = NoUser
       THEN /\ resp' = Reply("createTheme", 401, s, NoWork, NoTheme)
            /\ UNCHANGED themes
       ELSE IF ~IsAdmin(s)
       THEN /\ resp' = Reply("createTheme", 403, s, NoWork, NoTheme)
            /\ UNCHANGED themes
       ELSE IF startDate = NoDate \/ endDate = NoDate \/ startDate >= endDate
       THEN /\ resp' = Reply("createTheme", 400, s, NoWork, NoTheme)
            /\ UNCHANGED themes
       ELSE \E t \in ThemeIds :
            /\ themes[t].state = "none"
            /\ themes' = [themes EXCEPT ![t] =
                    [state |-> "live", category |-> category,
                     startDate |-> startDate, endDate |-> endDate,
                     status |-> IF now >= startDate /\ now <= endDate
                                THEN "Active"
                                ELSE IF now > endDate THEN "Ended"
                                ELSE "Upcoming",
                     submissions |-> {}]]
            /\ resp' = Reply("createTheme", 201, s, NoWork, t)
    /\ snap' = NoSnap
    /\ listed' = NoListed
    /\ UNCHANGED <<sessions, now, users, works, nextWork, portfolios, votes,
                   vthemes, ranked, reqs>>

\* PUT /api/themes/:id; NoDate and "" stand for a field the body leaves out
UpdateTheme(s, t, startDate, endDate, status) ==
    /\ IF s = NoUser
       THEN /\ resp' = Reply("updateTheme", 401, s, NoWork, t)
            /\ UNCHANGED themes
       ELSE IF ~IsAdmin(s)
       THEN /\ resp' = Reply("updateTheme", 403, s, NoWork, t)
            /\ UNCHANGED themes
       ELSE IF ~ThemeExists(t)
       THEN /\ resp' = Reply("updateTheme", 404, s, NoWork, t)
            /\ UNCHANGED themes
       ELSE LET start == IF startDate # NoDate THEN startDate
                         ELSE themes[t].startDate
                end == IF endDate # NoDate THEN endDate ELSE themes[t].endDate
            IN  IF start >= end
                THEN /\ resp' = Reply("updateTheme", 400, s, NoWork, t)
                     /\ UNCHANGED themes
                ELSE /\ themes' = [themes EXCEPT
                            ![t].startDate = start,
                            ![t].endDate = end,
                            ![t].status = IF status # "" THEN status ELSE @]
                     /\ resp' = Reply("updateTheme", 200, s, NoWork, t)
    /\ snap' = NoSnap
    /\ listed' = NoListed
    /\ UNCHANGED <<sessions, now, users, works, nextWork, portfolios, votes,
                   vthemes, ranked, reqs>>

\* DELETE /api/themes/:id
DeleteTheme(s, t) ==
    /\ IF s = NoUser
       THEN /\ resp' = Reply("deleteTheme", 401, s, NoWork, t)
            /\ UNCHANGED <<themes, works>>
       ELSE IF ~IsAdmin(s)
       THEN /\ resp' = Reply("deleteTheme", 403, s, NoWork, t)
            /\ UNCHANGED <<themes, works>>
       ELSE IF ~ThemeExists(t)
       THEN /\ resp' = Reply("deleteTheme", 404, s, NoWork, t)
            /\ UNCHANGED <<themes, works>>
       ELSE /\ works' = [w \in WorkIds |->
                    IF works[w].state = "live" /\ works[w].themeId = t
                    THEN [works[w] EXCEPT !.themeId = NoTheme]
                    ELSE works[w]]
            /\ themes' = [themes EXCEPT
                    ![t] = [NoThemeDoc EXCEPT !.state = "deleted"]]
            /\ resp' = Reply("deleteTheme", 200, s, NoWork, t)
    /\ snap' = NoSnap
    /\ listed' = NoListed
    /\ UNCHANGED <<sessions, now, users, nextWork, portfolios, votes, vthemes, ranked, reqs>>

\* an ownership check every session user passes
OwnsWork_Anyone(s, w) == TRUE

\* work.userId.toString() === req.session.userId
OwnsWork(s, w) == works[w].userId = s

\* POST /api/themes/:id/submit
Submit(s, t, w) ==
    /\ IF s = NoUser
       THEN /\ resp' = Reply("submit", 401, s, w, t)
            /\ UNCHANGED <<themes, works>>
       ELSE IF ~ThemeExists(t)
       THEN /\ resp' = Reply("submit", 404, s, w, t)
            /\ UNCHANGED <<themes, works>>
       ELSE IF themes[t].status # "Active"
       THEN /\ resp' = Reply("submit", 400, s, w, t)
            /\ UNCHANGED <<themes, works>>
       ELSE IF w = NoWork
       THEN /\ resp' = Reply("submit", 400, s, w, t)
            /\ UNCHANGED <<themes, works>>
       ELSE IF ~WorkExists(w)
       THEN /\ resp' = Reply("submit", 404, s, w, t)
            /\ UNCHANGED <<themes, works>>
       ELSE IF ~OwnsWork(s, w)
       THEN /\ resp' = Reply("submit", 403, s, w, t)
            /\ UNCHANGED <<themes, works>>
       ELSE IF themes[t].category # "All" /\ works[w].category # themes[t].category
       THEN /\ resp' = Reply("submit", 400, s, w, t)
            /\ UNCHANGED <<themes, works>>
       ELSE IF w \in themes[t].submissions
       THEN /\ resp' = Reply("submit", 400, s, w, t)
            /\ UNCHANGED <<themes, works>>
       ELSE /\ themes' = [themes EXCEPT ![t].submissions = @ \cup {w}]
            /\ works' = [works EXCEPT ![w].themeId = t]
            /\ resp' = Reply("submit", 200, s, w, t)
    /\ snap' = NoSnap
    /\ listed' = NoListed
    /\ UNCHANGED <<sessions, now, users, nextWork, portfolios, votes, vthemes, ranked, reqs>>

\* the passage of time
Tick ==
    /\ now < MaxTime
    /\ now' = now + 1
    /\ UNCHANGED <<sessions, users, works, nextWork, portfolios, votes, themes, vthemes,
                   resp, snap, ranked, listed, reqs, sessions>>

----------------------------------------------------------------------------
(* SpecTheme: the theme lifecycle of the Backend variant, with submissions *)

NextTheme ==
    \/ Tick
    \/ \E s \in {"a", "m1"}, d1 \in ThemeDates \cup {NoDate}, d2 \in ThemeDates :
            CreateTheme(s, "Photos", d1, d2)
    \/ \E s \in {"a", "m1"}, t \in ThemeIds, d1 \in {NoDate, 2},
          d2 \in {NoDate, 2, 3}, st \in {"", "Upcoming", "Ended"} :
            UpdateTheme(s, t, d1, d2, st)
    \/ \E s \in {"a", NoUser}, t \in ThemeIds : DeleteTheme(s, t)
    \/ \E st \in {"All", "Active"} : ListThemes(st, "All")
    \/ GetActiveTheme
    \/ \E t \in ThemeIds : GetTheme(t)
    \/ \E s \in {"m1", "m2"}, t \in ThemeIds, w \in WorkIds : Submit(s, t, w)
    \/ \E c \in {"Photos", "Graphics"} : CreateWork("m1", c, NoTheme)
    \/ \E w \in WorkIds : DeleteWork("m1", w)

SpecTheme == InitStore /\ [][NextTheme]_vars

(* SpecSubmit: submissions to a theme and votes scoped to it, over time *)

NextSubmit ==
    \/ Tick
    \/ \E c \in {"Photos", "All"} : CreateTheme("a", c, 1, 2)
    \/ ListThemes("All", "All")
    \/ \E c \in {"Photos", "Graphics"} : CreateWork("m1", c, NoTheme)
    \/ \E s \in {"m1", "m2", NoUser}, t \in ThemeIds,
          w \in WorkIds \cup {NoWork} : Submit(s, t, w)
    \/ \E t \in ThemeIds : DeleteTheme("a", t)

SpecSubmit == InitStore /\ [][NextSubmit]_vars

(* SpecEnded: a theme runs its course while works are submitted and voted *)

NextEnded ==
    \/ Tick
    \/ CreateTheme("a", "Photos", 1, 2)
    \/ ListThemes("All", "All")
    \/ CreateWork("m1", "Photos", NoTheme)
    \/ \E t \in ThemeIds, w \in WorkIds : Submit("m1", t, w)
    \/ \E w \in WorkIds, t \in ThemeIds : Vote("m2", w, t)

SpecEnded == InitStore /\ [][NextEnded]_vars

(* SpecLink: the link between works and themes: uploads that name a theme,  *)
(* submissions, work and theme deletions                                     *)

NextLink ==
    \/ Tick
    \/ CreateTheme("a", "Photos", 1, 2)
    \/ ListThemes("All", "All")
    \/ \E t \in ThemeIds \cup {NoTheme} : CreateWork("m1", "Photos", t)
    \/ \E t \in ThemeIds, w \in WorkIds : Submit("m1", t, w)
    \/ \E w \in WorkIds : DeleteWork("m1", w)
    \/ \E t \in ThemeIds : DeleteTheme("a", t)

SpecLink == InitStore /\ [][NextLink]_vars

----------------------------------------------------------------------------
(* Rankings (Backend works router) *)

\* .sort({ voteCount: -1, createdAt: -1 }): a comes strictly before b
SortsBefore(a, b) ==
    \/ works[a].voteCount > works[b].voteCount
    \/ /\ works[a].voteCount = works[b].voteCount
       /\ works[a].createdAt > works[b].createdAt

\* the orders the sort may return for a set of works: documents equal in
\* both keys come in either order
SortedOrders(found) ==
    {q \in [1..Cardinality(found) -> found] :
        /\ \A i, j \in DOMAIN q : i # j => q[i] # q[j]
        /\ \A i, j \in DOMAIN q : i < j => ~SortsBefore(q[j], q[i])}

\* .limit(n): a limit of 0 is no limit
Limit(q, n) ==
    IF n = 0 \/ n >= Len(q) THEN q ELSE SubSeq(q, 1, n)

\* GET /api/works/rankings/:category?limit=
Rankings(category, limit) ==
    LET found == {w \in WorkIds :
                    /\ WorkExists(w)
                    /\ (category # "All" => works[w].category = category)}
    IN  /\ \E q \in SortedOrders(found) :
                ranked' = [category |-> category, limit |-> limit,
                           works |-> Limit(q, limit)]
        /\ resp' = Reply("rankings", 200, NoUser, NoWork, NoTheme)
        /\ snap' = NoSnap
        /\ listed' = NoListed
        /\ UNCHANGED <<sessions, now, users, works, nextWork, portfolios, votes, themes,
                       vthemes, reqs>>

----------------------------------------------------------------------------
(* SpecRank: works are uploaded and voted for over time, and ranked *)

RankLimits == 1..MaxWorks

NextRank ==
    \/ Tick
    \/ \E c \in {"Photos", "Graphics"} : CreateWork("m1", c, NoTheme)
    \/ \E s \in {"a", "m2"}, w \in WorkIds : Vote(s, w, NoTheme)
    \/ \E c \in {"All", "Photos"}, n \in RankLimits : Rankings(c, n)

SpecRank == InitStore /\ [][NextRank]_vars

----------------------------------------------------------------------------
(* Voting themes (Login Backend) *)

\* the users of the Login Backend: the President is the admin
LoginUsers ==
    [u \in UserIds |->
        [exists |-> TRUE, userType |-> "member",
         position |-> IF u = "a" THEN "President" ELSE "Member",
         isApproved |-> TRUE, isActive |-> TRUE, email |-> u]]

\* isAdmin of Login Backend/routes/auth.js
IsPresident(s) ==
    s \in UserIds /\ users[s].exists /\ users[s].position = "President"

VThemeExists(t) == t \in ThemeIds /\ vthemes[t].state = "live"

\* Vote.find({ themeId })
ThemeVotes(t) == {v \in votes : v.themeId = t}

\* voteCounts[workId] of determineWinner
ThemeVoteCount(t, w) == Cardinality({v \in ThemeVotes(t) : v.workId = w})

\* the work ids the loop of determineWinner can end on: the order of the
\* entries is the order the votes were found in, which nothing fixes
WinnerCandidates(t) ==
    {w \in WorkIds :
        /\ ThemeVoteCount(t, w) > 0
        /\ \A x \in WorkIds : ThemeVoteCount(t, x) <= ThemeVoteCount(t, w)}

\* .populate('winnerWorkId'): null when the Work document is gone
PopulatedWinner(t) ==
    IF WorkExists(vthemes[t].winnerWorkId) THEN vthemes[t].winnerWorkId
    ELSE NoWork

\* methods.updateStatus of models/VotingTheme.js
UpdatedStatus(th) ==
    IF now < th.startDate THEN "upcoming"
    ELSE IF now >= th.startDate /\ now <= th.endDate THEN "active"
    ELSE "closed"

\* the status the loop of GET / leaves in a theme
ListedStatus(th) ==
    IF now < th.startDate /\ th.status # "upcoming" THEN "upcoming"
    ELSE IF now >= th.startDate /\ now <= th.endDate /\ th.status # "active"
    THEN "active"
    ELSE IF now > th.endDate /\ th.status # "closed" THEN "closed"
    ELSE th.status

\* the themes of a GET / for which determineWinner is called
Closing(found) ==
    {t \in found :
        /\ ~(now < vthemes[t].startDate /\ vthemes[t].status # "upcoming")
        /\ ~(/\ now >= vthemes[t].startDate /\ now <= vthemes[t].endDate
             /\ vthemes[t].status # "active")
        /\ now > vthemes[t].endDate /\ vthemes[t].status # "closed"
        /\ PopulatedWinner(t) = NoWork}

\* GET /api/themes?status= of the voting-theme router
VListThemes(status) ==
    LET found == {t \in ThemeIds :
                    /\ VThemeExists(t)
                    /\ (status # "all" => vthemes[t].status = status)}
    IN  /\ \E winner \in [Closing(found) -> WorkIds \cup {NoWork}] :
            /\ \A t \in Closing(found) :
                    IF ThemeVotes(t) = {}
                    THEN winner[t] = vthemes[t].winnerWorkId
                    ELSE winner[t] \in WinnerCandidates(t)
            /\ vthemes' = [t \in ThemeIds |->
                    IF t \notin found THEN vthemes[t]
                    ELSE [vthemes[t] EXCEPT
                            !.status = ListedStatus(vthemes[t]),
                            !.winnerWorkId =
                                IF t \in Closing(found) THEN winner[t] ELSE @]]
        /\ listed' = [filter |-> status,
                      status |-> [t \in ThemeIds |->
                            IF t \in found THEN vthemes'[t].status ELSE "-"],
                      determined |-> Closing(found)]
        /\ resp' = Reply("vListThemes", 200, NoUser, NoWork, NoTheme)
        /\ snap' = NoSnap
        /\ UNCHANGED <<sessions, now, users, works, nextWork, portfolios, votes, themes,
                       ranked, reqs>>

\* GET /api/themes/:themeId of the voting-theme router
VGetTheme(t) ==
    /\ IF ~VThemeExists(t)
       THEN /\ resp' = Reply("vGetTheme", 404, NoUser, NoWork, t)
            /\ listed' = NoListed
            /\ UNCHANGED vthemes
       ELSE /\ vthemes' = [vthemes EXCEPT
                    ![t].status = UpdatedStatus(vthemes[t])]
            /\ listed' = [NoListed EXCEPT !.status[t] = vthemes'[t].status]
            /\ resp' = Reply("vGetTheme", 200, NoUser, NoWork, t)
    /\ snap' = NoSnap
    /\ UNCHANGED <<sessions, now, users, works, nextWork, portfolios, votes, themes,
                   ranked, reqs>>

\* POST /api/themes of the voting-theme router
VCreateTheme(s, startDate, endDate) ==
    /\ IF s = NoUser
       THEN /\ resp' = Reply("vCreateTheme", 401, s, NoWork, NoTheme)
            /\ UNCHANGED vthemes
       ELSE IF ~IsPresident(s)
       THEN /\ resp' = Reply("vCreateTheme", 403, s, NoWork, NoTheme)
            /\ UNCHANGED vthemes
       ELSE IF startDate = NoDate \/ endDate = NoDate \/ endDate <= startDate
       THEN /\ resp' = Reply("vCreateTheme", 400, s, NoWork, NoTheme)
            /\ UNCHANGED vthemes
       ELSE \E t \in ThemeIds :
            /\ vthemes[t].state = "none"
            /\ vthemes' = [vthemes EXCEPT ![t] =
                    [state |-> "live",
                     startDate |-> startDate, endDate |-> endDate,
                     status |-> IF now >= startDate /\ now <= endDate
                                THEN "active"
                                ELSE IF now > endDate THEN "closed"
                                ELSE "upcoming",
                     winnerWorkId |-> NoWork]]
            /\ resp' = Reply("vCreateTheme", 201, s, NoWork, t)
    /\ snap' = NoSnap
    /\ listed' = NoListed
    /\ UNCHANGED <<sessions, now, users, works, nextWork, portfolios, votes, themes,
                   ranked, reqs>>

\* PUT /api/themes/:themeId of the voting-theme router
VUpdateTheme(s, t, startDate, endDate) ==
    /\ IF s = NoUser
       THEN /\ resp' = Reply("vUpdateTheme", 401, s, NoWork, t)
            /\ UNCHANGED vthemes
       ELSE IF ~IsPresident(s)
       THEN /\ resp' = Reply("vUpdateTheme", 403, s, NoWork, t)
            /\ UNCHANGED vthemes
       ELSE IF ~VThemeExists(t)
       THEN /\ resp' = Reply("vUpdateTheme", 404, s, NoWork, t)
            /\ UNCHANGED vthemes
       ELSE LET start == IF startDate # NoDate THEN startDate
                         ELSE vthemes[t].startDate
                end == IF endDate # NoDate THEN endDate
                       ELSE vthemes[t].endDate
                set == [vthemes[t] EXCEPT !.startDate = start, !.endDate = end]
            IN  IF end <= start
                THEN /\ resp' = Reply("vUpdateTheme", 400, s, NoWork, t)
                     /\ UNCHANGED vthemes
                ELSE /\ vthemes' = [vthemes EXCEPT ![t] =
                            [set EXCEPT !.status = UpdatedStatus(set)]]
                     /\ resp' = Reply("vUpdateTheme", 200, s, NoWork, t)
    /\ snap' = NoSnap
    /\ listed' = NoListed
    /\ UNCHANGED <<sessions, now, users, works, nextWork, portfolios, votes, themes,
                   ranked, reqs>>

\* DELETE /api/themes/:themeId of the voting-theme router
VDeleteTheme(s, t) ==
    /\ IF s = NoUser
       THEN /\ resp' = Reply("vDeleteTheme", 401, s, NoWork, t)
            /\ UNCHANGED <<vthemes, votes>>
       ELSE IF ~IsPresident(s)
       THEN /\ resp' = Reply("vDeleteTheme", 403, s, NoWork, t)
            /\ UNCHANGED <<vthemes, votes>>
       ELSE IF ~VThemeExists(t)
       THEN /\ resp' = Reply("vDeleteTheme", 404, s, NoWork, t)
            /\ UNCHANGED <<vthemes, votes>>
       ELSE /\ votes' = votes \ ThemeVotes(t)
            /\ vthemes' = [vthemes EXCEPT
                    ![t] = [NoVThemeDoc EXCEPT !.state = "deleted"]]
            /\ resp' = Reply("vDeleteTheme", 200, s, NoWork, t)
    /\ snap' = NoSnap
    /\ listed' = NoListed
    /\ UNCHANGED <<sessions, now, users, works, nextWork, portfolios, themes, ranked,
                   reqs>>

----------------------------------------------------------------------------
(* SpecVTheme: voting themes over time, with the works and votes of the store *)

InitVTheme ==
    /\ now = 0
    /\ users = LoginUsers
    /\ works = [w \in WorkIds |-> NoWorkDoc]
    /\ nextWork = 1
    /\ portfolios = [u \in UserIds |-> NoPortfolio]
    /\ votes = {}
    /\ themes = [t \in ThemeIds |-> NoThemeDoc]
    /\ vthemes = [t \in ThemeIds |-> NoVThemeDoc]
    /\ resp = NoResp
    /\ snap = NoSnap
    /\ ranked = NoRanked
    /\ listed = NoListed
    /\ reqs = <<>>
    /\ sessions = NoSessions

NextVTheme ==
    \/ Tick
    \/ \E s \in {"a", "m1"}, d2 \in {1, 2} : VCreateTheme(s, 1, d2)
    \/ \E st \in {"all", "active"} : VListThemes(st)
    \/ \E t \in ThemeIds : VGetTheme(t)
    \/ \E th \in ThemeIds \cup {NoTheme} : CreateWork("m1", "Photos", th)
    \/ \E w \in WorkIds, th \in ThemeIds \cup {NoTheme} : Vote("a", w, th)
    \/ \E w \in WorkIds, th \in ThemeIds : Vote("m2", w, th)

SpecVTheme == InitVTheme /\ [][NextVTheme]_vars

----------------------------------------------------------------------------
(* SpecWinner: a voting theme that is closed, reopened by the admin and
   closed again, while votes come and go. Works are deleted only while no
   winner is stored, so that what follows a winner is votes, unvotes, reads
   and theme updates only. *)

NoWinnerYet == \A t \in ThemeIds : vthemes[t].winnerWorkId = NoWork

NextWinner ==
    \/ Tick
    \/ VCreateTheme("a", 1, 2)
    \/ \E t \in ThemeIds, d1 \in {NoDate, 3}, d2 \in {NoDate, 3} :
            VUpdateTheme("a", t, d1, d2)
    \/ \E s \in {"a", "m1"}, t \in ThemeIds : VDeleteTheme(s, t)
    \/ VListThemes("all")
    \/ \E t \in ThemeIds : VGetTheme(t)
    \/ CreateWork("m1", "Photos", NoTheme)
    \/ \E w \in WorkIds : NoWinnerYet /\ DeleteWork("m1", w)
    \/ \E s \in {"a", "m2"}, w \in WorkIds, th \in ThemeIds : Vote(s, w, th)
    \/ \E w \in WorkIds : Unvote("m2", w)

SpecWinner == InitVTheme /\ [][NextWinner]_vars

----------------------------------------------------------------------------
(* SpecConc: vote and unvote requests running concurrently.  Each handler   *)
(* is split at its awaits; one action is one store operation together with *)
(* the synchronous code that follows it.  A document read by findById or    *)
(* findOne is a private copy: save() writes back the field the handler set. *)
(* No work is deleted while these requests run.                             *)

ReqIds == {"r1", "r2"}
ConcVoters == {"a", "m2"}
ConcWorks == {1}

Idle == [pc |-> "idle", user |-> NoUser, work |-> NoWork, theme |-> NoTheme,
         owner |-> NoUser, count |-> 0]

\* res.json / res.status(..).json: the request is over
Finish(r, op, status) ==
    /\ resp' = Reply(op, status, reqs[r].user, reqs[r].work, reqs[r].theme)
    /\ reqs' = [reqs EXCEPT ![r] = Idle]

\* POST /api/votes: isAuthenticated, then Work.findById(workId)
VoteFindWork(r, s, w, themeId) ==
    /\ reqs[r].pc = "idle"
    /\ IF s = NoUser
       THEN /\ resp' = Reply("vote", 401, s, w, themeId)
            /\ UNCHANGED reqs
       ELSE IF ~WorkExists(w)
       THEN /\ resp' = Reply("vote", 404, s, w, themeId)
            /\ UNCHANGED reqs
       ELSE /\ reqs' = [reqs EXCEPT ![r] =
                    [pc |-> "v_findVote", user |-> s, work |-> w,
                     theme |-> themeId, owner |-> works[w].userId,
                     count |-> works[w].voteCount]]
            /\ UNCHANGED resp
    /\ UNCHANGED <<sessions, now, users, works, nextWork, portfolios, votes, themes,
                   vthemes, snap, ranked, listed>>

\* POST /api/votes: Vote.findOne({ userId, workId }), the pre-check
VoteFindVote(r) ==
    /\ reqs[r].pc = "v_findVote"
    /\ IF AlreadyVoted(reqs[r].user, reqs[r].work)
       THEN Finish(r, "vote", 400)
       ELSE /\ reqs' = [reqs EXCEPT ![r].pc = "v_saveVote"]
            /\ UNCHANGED resp
    /\ UNCHANGED <<sessions, now, users, works, nextWork, portfolios, votes, themes,
                   vthemes, snap, ranked, listed>>

UniqueIndexRejects_None(s, w) == FALSE

\* the unique index { userId: 1, workId: 1 } of the Vote collection
UniqueIndexRejects(s, w) == VotesOf(s, w) # {}

\* POST /api/votes: newVote.save(); a duplicate key throws, the catch answers 500
VoteSaveVote(r) ==
    /\ reqs[r].pc = "v_saveVote"
    /\ IF UniqueIndexRejects(reqs[r].user, reqs[r].work)
       THEN /\ Finish(r, "vote", 500)
            /\ UNCHANGED votes
       ELSE /\ votes' = votes \cup {[userId |-> reqs[r].user,
                    workId |-> reqs[r].work, themeId |-> reqs[r].theme,
                    id |-> r]}
            /\ reqs' = [reqs EXCEPT ![r].pc = "v_saveWork"]
            /\ UNCHANGED resp
    /\ UNCHANGED <<sessions, now, users, works, nextWork, portfolios, themes, vthemes,
                   snap, ranked, listed>>

\* an increment done by the store on the value it holds ($inc)
Increment_Atomic(read, stored) == stored + 1

\* work.voteCount = (work.voteCount || 0) + 1 on the document as it was
\* loaded; save() writes that number whatever the store holds by then
Increment(read, stored) == read + 1

\* POST /api/votes: work.voteCount = (work.voteCount || 0) + 1; work.save()
VoteSaveWork(r) ==
    /\ reqs[r].pc = "v_saveWork"
    /\ reqs[r].count + 1 <= MaxCount
    /\ works' = [works EXCEPT ![reqs[r].work].voteCount =
            Increment(reqs[r].count, works[reqs[r].work].voteCount)]
    /\ reqs' = [reqs EXCEPT ![r].pc = "v_findPortfolio"]
    /\ UNCHANGED <<sessions, now, users, nextWork, portfolios, votes, themes, vthemes,
                   resp, snap, ranked, listed>>

\* POST /api/votes: Portfolio.findOne({ userId: work.userId })
VoteFindPortfolio(r) ==
    /\ reqs[r].pc = "v_findPortfolio"
    /\ IF HasPortfolio(reqs[r].owner)
       THEN /\ reqs' = [reqs EXCEPT ![r].pc = "v_savePortfolio",
                    ![r].count = portfolios[reqs[r].owner].totalVotes]
            /\ UNCHANGED resp
       ELSE Finish(r, "vote", 200)
    /\ UNCHANGED <<sessions, now, users, works, nextWork, portfolios, votes, themes,
                   vthemes, snap, ranked, listed>>

\* POST /api/votes: portfolio.totalVotes = (portfolio.totalVotes || 0) + 1; save
VoteSavePortfolio(r) ==
    /\ reqs[r].pc = "v_savePortfolio"
    /\ reqs[r].count + 1 <= MaxCount
    /\ portfolios' = [portfolios EXCEPT
            ![reqs[r].owner].totalVotes =
                Increment(reqs[r].count, portfolios[reqs[r].owner].totalVotes)]
    /\ Finish(r, "vote", 200)
    /\ UNCHANGED <<sessions, now, users, works, nextWork, votes, themes, vthemes, snap,
                   ranked, listed>>

\* a find that leaves the document in the collection
VotesAfterDelete_Kept(v) == votes

\* Vote.findOneAndDelete: the document found is removed in the same operation
VotesAfterDelete(v) == votes \ {v}

\* DELETE /api/votes/:workId: isAuthenticated, then Vote.findOneAndDelete
UnvoteDelete(r, s, w) ==
    /\ reqs[r].pc = "idle"
    /\ IF s = NoUser
       THEN /\ resp' = Reply("unvote", 401, s, w, NoTheme)
            /\ UNCHANGED <<reqs, votes>>
       ELSE IF FoundVotes(s, w) = {}
       THEN /\ resp' = Reply("unvote", 404, s, w, NoTheme)
            /\ UNCHANGED <<reqs, votes>>
       ELSE \E v \in FoundVotes(s, w) :
            /\ votes' = VotesAfterDelete(v)
            /\ reqs' = [reqs EXCEPT ![r] =
                    [pc |-> "u_findWork", user |-> s, work |-> w,
                     theme |-> v.themeId, owner |-> NoUser, count |-> 0]]
            /\ UNCHANGED resp
    /\ UNCHANGED <<sessions, now, users, works, nextWork, portfolios, themes, vthemes,
                   snap, ranked, listed>>

\* DELETE /api/votes/:workId: Work.findById(workId)
UnvoteFindWork(r) ==
    /\ reqs[r].pc = "u_findWork"
    /\ IF WorkExists(reqs[r].work)
       THEN /\ reqs' = [reqs EXCEPT ![r].pc = "u_saveWork",
                    ![r].owner = works[reqs[r].work].userId,
                    ![r].count = works[reqs[r].work].voteCount]
            /\ UNCHANGED resp
       ELSE Finish(r, "unvote", 200)
    /\ UNCHANGED <<sessions, now, users, works, nextWork, portfolios, votes, themes,
                   vthemes, snap, ranked, listed>>

\* DELETE /api/votes/:workId: work.voteCount = Math.max(.. - 1, 0); work.save()
UnvoteSaveWork(r) ==
    /\ reqs[r].pc = "u_saveWork"
    /\ works' = [works EXCEPT
            ![reqs[r].work].voteCount = Decrement(reqs[r].count)]
    /\ reqs' = [reqs EXCEPT ![r].pc = "u_findPortfolio"]
    /\ UNCHANGED <<sessions, now, users, nextWork, portfolios, votes, themes, vthemes,
                   resp, snap, ranked, listed>>

\* DELETE /api/votes/:workId: Portfolio.findOne({ userId: work.userId })
UnvoteFindPortfolio(r) ==
    /\ reqs[r].pc = "u_findPortfolio"
    /\ IF HasPortfolio(reqs[r].owner)
       THEN /\ reqs' = [reqs EXCEPT ![r].pc = "u_savePortfolio",
                    ![r].count = portfolios[reqs[r].owner].totalVotes]
            /\ UNCHANGED resp
       ELSE Finish(r, "unvote", 200)
    /\ UNCHANGED <<sessions, now, users, works, nextWork, portfolios, votes, themes,
                   vthemes, snap, ranked, listed>>

\* DELETE /api/votes/:workId: portfolio.totalVotes = Math.max(.. - 1, 0); save
UnvoteSavePortfolio(r) ==
    /\ reqs[r].pc = "u_savePortfolio"
    /\ portfolios' = [portfolios EXCEPT
            ![reqs[r].owner].totalVotes = Decrement(reqs[r].count)]
    /\ Finish(r, "unvote", 200)
    /\ UNCHANGED <<sessions, now, users, works, nextWork, votes, themes, vthemes, snap,
                   ranked, listed>>

\* one uploaded work, its owner's portfolio, no vote, no request in flight
InitConc ==
    /\ now = 0
    /\ users = SeedUsers
    /\ works = [w \in WorkIds |->
            IF w \in ConcWorks
            THEN [state |-> "live", userId |-> "m1", category |-> "Photos",
                  voteCount |-> 0, themeId |-> NoTheme, createdAt |-> 0,
                  featured |-> FALSE]
            ELSE NoWorkDoc]
    /\ nextWork = Cardinality(ConcWorks) + 1
    /\ portfolios = [u \in UserIds |->
            IF u = "m1"
            THEN [exists |-> TRUE, works |-> ConcWorks, totalVotes |-> 0]
            ELSE NoPortfolio]
    /\ votes = {}
    /\ themes = [t \in ThemeIds |-> NoThemeDoc]
    /\ vthemes = [t \in ThemeIds |-> NoVThemeDoc]
    /\ resp = NoResp
    /\ snap = NoSnap
    /\ ranked = NoRanked
    /\ listed = NoListed
    /\ reqs = [r \in ReqIds |-> Idle]
    /\ sessions = NoSessions

NextConc ==
    \/ \E r \in ReqIds, s \in ConcVoters \cup {NoUser}, w \in WorkIds :
            VoteFindWork(r, s, w, NoTheme)
    \/ \E r \in ReqIds : VoteFindVote(r)
    \/ \E r \in ReqIds : VoteSaveVote(r)
    \/ \E r \in ReqIds : VoteSaveWork(r)
    \/ \E r \in ReqIds : VoteFindPortfolio(r)
    \/ \E r \in ReqIds : VoteSavePortfolio(r)
    \/ \E r \in ReqIds, s \in ConcVoters \cup {NoUser}, w \in WorkIds :
            UnvoteDelete(r, s, w)
    \/ \E r \in ReqIds : UnvoteFindWork(r)
    \/ \E r \in ReqIds : UnvoteSaveWork(r)
    \/ \E r \in ReqIds : UnvoteFindPortfolio(r)
    \/ \E r \in ReqIds : UnvoteSavePortfolio(r)

SpecConc == InitConc /\ [][NextConc]_vars

----------------------------------------------------------------------------
(* Auth and users routes (Backend) *)

\* an email is identified with the user that registered it; two more values
\* stand for an address nobody registered and for a body without email
NoEmail == ""
Emails == UserIds \cup {"unknown", NoEmail}

\* User.findOne({ email }) / User.findById
UserExists(u) == u \in UserIds /\ users[u].exists

\* the check of POST /api/auth/login that nobody passes
IsUnapprovedMember_Never(u) == FALSE

\* the check of POST /api/auth/login: a member account not approved yet
IsUnapprovedMember(u) ==
    users[u].userType = "member" /\ ~users[u].isApproved

\* req.session.userId = user._id; req.session.userType = user.userType
SessionOf(u) == [userId |-> u, userType |-> users[u].userType]

\* a destroy that leaves the session record in the store
DestroySession_Kept(c) == sessions

\* req.session.destroy(): the record is removed from the store, a later
\* request with the same cookie finds no userId
DestroySession(c) == [sessions EXCEPT ![c] = NoSession]

\* Work.deleteMany({ userId })
WorksWithout(u) ==
    [w \in WorkIds |->
        IF works[w].state = "live" /\ works[w].userId = u
        THEN [NoWorkDoc EXCEPT !.state = "deleted"]
        ELSE works[w]]

\* POST /api/auth/signup (name given)
Signup(c, email, userType, upMail) ==
    /\ IF email = NoEmail
       THEN /\ resp' = AuthReply(c, "signup", 400, NoUser)
            /\ UNCHANGED <<users, sessions>>
       ELSE IF UserExists(email)
       THEN /\ resp' = AuthReply(c, "signup", 409, email)
            /\ UNCHANGED <<users, sessions>>
       ELSE IF userType = "member" /\ ~upMail
       THEN /\ resp' = AuthReply(c, "signup", 400, email)
            /\ UNCHANGED <<users, sessions>>
       ELSE /\ email \in UserIds
            /\ users' = [users EXCEPT ![email] =
                    [exists |-> TRUE, userType |-> userType,
                     position |-> IF userType = "member" THEN "Member" ELSE "",
                     isApproved |-> userType \in {"guest", "member"},
                     isActive |-> TRUE, email |-> email]]
            /\ sessions' = IF userType \in {"guest", "member"}
                           THEN [sessions EXCEPT ![c] =
                                    [userId |-> email, userType |-> userType]]
                           ELSE sessions
            /\ resp' = AuthReply(c, "signup", 200, email)
    /\ snap' = NoSnap
    /\ listed' = NoListed
    /\ UNCHANGED <<now, works, nextWork, portfolios, votes, themes, vthemes,
                   ranked, reqs>>

\* POST /api/auth/login
Login(c, email) ==
    /\ IF email = NoEmail
       THEN /\ resp' = AuthReply(c, "login", 400, NoUser)
            /\ UNCHANGED sessions
       ELSE IF ~UserExists(email)
       THEN /\ resp' = AuthReply(c, "login", 404, email)
            /\ UNCHANGED sessions
       ELSE IF IsUnapprovedMember(email)
       THEN /\ resp' = AuthReply(c, "login", 403, email)
            /\ UNCHANGED sessions
       ELSE /\ sessions' = [sessions EXCEPT ![c] = SessionOf(email)]
            /\ resp' = AuthReply(c, "login", 200, email)
    /\ snap' = NoSnap
    /\ listed' = NoListed
    /\ UNCHANGED <<now, users, works, nextWork, portfolios, votes, themes,
                   vthemes, ranked, reqs>>

\* GET /api/auth/verify: always 200; success: false is a reply about no user
Verify(c) ==
    /\ IF sessions[c].userId = NoUser
       THEN /\ resp' = AuthReply(c, "verify", 200, NoUser)
            /\ UNCHANGED sessions
       ELSE IF ~UserExists(sessions[c].userId)
       THEN /\ sessions' = DestroySession(c)
            /\ resp' = AuthReply(c, "verify", 200, NoUser)
       ELSE /\ resp' = AuthReply(c, "verify", 200, sessions[c].userId)
            /\ UNCHANGED sessions
    /\ snap' = NoSnap
    /\ listed' = NoListed
    /\ UNCHANGED <<now, users, works, nextWork, portfolios, votes, themes,
                   vthemes, ranked, reqs>>

\* POST /api/auth/logout
Logout(c) ==
    /\ sessions' = DestroySession(c)
    /\ resp' = AuthReply(c, "logout", 200, sessions[c].userId)
    /\ snap' = NoSnap
    /\ listed' = NoListed
    /\ UNCHANGED <<now, users, works, nextWork, portfolios, votes, themes,
                   vthemes, ranked, reqs>>

\* GET /api/users/profile/me, a read behind isAuthenticated
GetProfile(c) ==
    /\ resp' = IF sessions[c].userId = NoUser
               THEN AuthReply(c, "getProfile", 401, NoUser)
               ELSE IF ~UserExists(sessions[c].userId)
               THEN AuthReply(c, "getProfile", 404, sessions[c].userId)
               ELSE AuthReply(c, "getProfile", 200, sessions[c].userId)
    /\ snap' = NoSnap
    /\ listed' = NoListed
    /\ UNCHANGED <<sessions, now, users, works, nextWork, portfolios, votes,
                   themes, vthemes, ranked, reqs>>

\* POST /api/auth/approve/:userId
ApproveMember(c, u) ==
    /\ IF sessions[c].userId = NoUser
       THEN /\ resp' = AuthReply(c, "approve", 401, u)
            /\ UNCHANGED users
       ELSE IF ~IsAdmin(sessions[c].userId)
       THEN /\ resp' = AuthReply(c, "approve", 403, u)
            /\ UNCHANGED users
       ELSE IF ~UserExists(u)
       THEN /\ resp' = AuthReply(c, "approve", 404, u)
            /\ UNCHANGED users
       ELSE IF users[u].userType # "member"
       THEN /\ resp' = AuthReply(c, "approve", 400, u)
            /\ UNCHANGED users
       ELSE /\ users' = [users EXCEPT ![u].isApproved = TRUE]
            /\ resp' = AuthReply(c, "approve", 200, u)
    /\ snap' = NoSnap
    /\ listed' = NoListed
    /\ UNCHANGED <<sessions, now, works, nextWork, portfolios, votes, themes,
                   vthemes, ranked, reqs>>

\* DELETE /api/users/profile/me
DeleteOwnAccount(c) ==
    /\ IF sessions[c].userId = NoUser
       THEN /\ resp' = AuthReply(c, "deleteOwnAccount", 401, NoUser)
            /\ UNCHANGED <<users, works, portfolios, sessions>>
       ELSE LET u == sessions[c].userId
            IN  /\ portfolios' = [portfolios EXCEPT ![u] = NoPortfolio]
                /\ works' = WorksWithout(u)
                /\ users' = [users EXCEPT ![u] = NoUserDoc]
                /\ sessions' = DestroySession(c)
                /\ resp' = AuthReply(c, "deleteOwnAccount", 200, u)
    /\ snap' = NoSnap
    /\ listed' = NoListed
    /\ UNCHANGED <<now, nextWork, votes, themes, vthemes, ranked, reqs>>

\* the values of a body field that is not sent
NotSent == "undefined"

\* PUT /api/users/:id (name, email, batchName, cluster not sent); the body
\* fields are NotSent or the value as text
AdminUpdateUser(c, u, userType, isApproved) ==
    /\ IF sessions[c].userId = NoUser
       THEN /\ resp' = AuthReply(c, "adminUpdateUser", 401, u)
            /\ UNCHANGED users
       ELSE IF ~IsAdmin(sessions[c].userId)
       THEN /\ resp' = AuthReply(c, "adminUpdateUser", 403, u)
            /\ UNCHANGED users
       ELSE IF ~UserExists(u)
       THEN /\ resp' = AuthReply(c, "adminUpdateUser", 404, u)
            /\ UNCHANGED users
       ELSE /\ users' = [users EXCEPT
                    ![u].userType = IF userType = NotSent THEN @ ELSE userType,
                    ![u].isApproved =
                        IF isApproved = NotSent THEN @
                        ELSE (isApproved = "true")]
            /\ resp' = AuthReply(c, "adminUpdateUser", 200, u)
    /\ snap' = NoSnap
    /\ listed' = NoListed
    /\ UNCHANGED <<sessions, now, works, nextWork, portfolios, votes, themes,
                   vthemes, ranked, reqs>>

\* DELETE /api/users/:id
AdminDeleteUser(c, u) ==
    /\ IF sessions[c].userId = NoUser
       THEN /\ resp' = AuthReply(c, "adminDeleteUser", 401, u)
            /\ UNCHANGED <<users, works, portfolios>>
       ELSE IF ~IsAdmin(sessions[c].userId)
       THEN /\ resp' = AuthReply(c, "adminDeleteUser", 403, u)
            /\ UNCHANGED <<users, works, portfolios>>
       ELSE IF ~UserExists(u)
       THEN /\ resp' = AuthReply(c, "adminDeleteUser", 404, u)
            /\ UNCHANGED <<users, works, portfolios>>
       ELSE IF users[u].userType = "admin"
       THEN /\ resp' = AuthReply(c, "adminDeleteUser", 403, u)
            /\ UNCHANGED <<users, works, portfolios>>
       ELSE /\ portfolios' = [portfolios EXCEPT ![u] = NoPortfolio]
            /\ works' = WorksWithout(u)
            /\ users' = [users EXCEPT ![u] = NoUserDoc]
            /\ resp' = AuthReply(c, "adminDeleteUser", 200, u)
    /\ snap' = NoSnap
    /\ listed' = NoListed
    /\ UNCHANGED <<sessions, now, nextWork, votes, themes, vthemes, ranked,
                   reqs>>

\* PATCH /api/works/:id/featured
ToggleFeatured(c, w) ==
    /\ IF sessions[c].userId = NoUser
       THEN /\ resp' = [AuthReply(c, "toggleFeatured", 401, NoUser)
                            EXCEPT !.work = w]
            /\ UNCHANGED works
       ELSE IF ~IsAdmin(sessions[c].userId)
       THEN /\ resp' = [AuthReply(c, "toggleFeatured", 403, NoUser)
                            EXCEPT !.work = w]
            /\ UNCHANGED works
       ELSE IF ~WorkExists(w)
       THEN /\ resp' = [AuthReply(c, "toggleFeatured", 404, NoUser)
                            EXCEPT !.work = w]
            /\ UNCHANGED works
       ELSE /\ works' = [works EXCEPT ![w].featured = ~@]
            /\ resp' = [AuthReply(c, "toggleFeatured", 200, NoUser)
                            EXCEPT !.work = w]
    /\ snap' = NoSnap
    /\ listed' = NoListed
    /\ UNCHANGED <<sessions, now, users, nextWork, portfolios, votes, themes,
                   vthemes, ranked, reqs>>

\* the Backend after start-up: the admin "a", the approved member "m1",
\* nobody signed up as "m2" yet, nobody logged in
InitAuth ==
    /\ now = 0
    /\ users = [SeedUsers EXCEPT !["m2"] = NoUserDoc]
    /\ works = [w \in WorkIds |-> NoWorkDoc]
    /\ nextWork = 1
    /\ portfolios = [u \in UserIds |-> NoPortfolio]
    /\ votes = {}
    /\ themes = [t \in ThemeIds |-> NoThemeDoc]
    /\ vthemes = [t \in ThemeIds |-> NoVThemeDoc]
    /\ resp = NoResp
    /\ snap = NoSnap
    /\ ranked = NoRanked
    /\ listed = NoListed
    /\ reqs = <<>>
    /\ sessions = NoSessions

(* SpecAuth: sessions and accounts of the Backend *)

NextAuth ==
    \/ \E c \in Clients, t \in {"guest", "member", "admin"}, up \in BOOLEAN :
            Signup(c, "m2", t, up)
    \/ \E c \in Clients, e \in Emails : Login(c, e)
    \/ \E c \in Clients : Verify(c)
    \/ \E c \in Clients : Logout(c)
    \/ \E c \in Clients : GetProfile(c)
    \/ \E c \in Clients, u \in {"m1", "m2"} : ApproveMember(c, u)
    \/ \E c \in Clients : DeleteOwnAccount(c)
    \/ \E c \in Clients, u \in {"m1", "m2"}, t \in {NotSent, "member"},
          ok \in {NotSent, "false"} :
            AdminUpdateUser(c, u, t, ok)
    \/ \E c \in Clients, u \in UserIds : AdminDeleteUser(c, u)

SpecAuth == InitAuth /\ [][NextAuth]_vars

(* SpecClient: the requests a client can send without an admin session *)

\* PUT /api/users/profile/me (position sent; name, batchName, cluster not
\* modelled): only a member's position is written
UpdateOwnProfile(c, position) ==
    /\ IF sessions[c].userId = NoUser
       THEN /\ resp' = AuthReply(c, "updateOwnProfile", 401, NoUser)
            /\ UNCHANGED users
       ELSE IF ~UserExists(sessions[c].userId)
       THEN /\ resp' = AuthReply(c, "updateOwnProfile", 404, sessions[c].userId)
            /\ UNCHANGED users
       ELSE /\ users' = [users EXCEPT ![sessions[c].userId].position =
                    IF users[sessions[c].userId].userType = "member"
                    THEN position ELSE @]
            /\ resp' = AuthReply(c, "updateOwnProfile", 200, sessions[c].userId)
    /\ snap' = NoSnap
    /\ listed' = NoListed
    /\ UNCHANGED <<sessions, now, works, nextWork, portfolios, votes, themes,
                   vthemes, ranked, reqs>>

NextClient ==
    \/ \E c \in Clients, t \in {"guest", "member", "admin"}, up \in BOOLEAN :
            Signup(c, "m2", t, up)
    \/ \E c \in Clients, e \in {"m1", "m2", "unknown"} : Login(c, e)
    \/ \E c \in Clients : Logout(c)
    \/ \E c \in Clients, p \in {"President", "Admin"} : UpdateOwnProfile(c, p)
    \/ \E c \in Clients : DeleteOwnAccount(c)

SpecClient == InitAuth /\ [][NextClient]_vars

(* SpecAdmin: the routes behind isAdmin, with works, votes and accounts *)

\* the user of the session a request of client c carries
SessionUser(c) == sessions[c].userId

NextAdmin ==
    \/ \E c \in Clients, e \in {"a", "m1"} : Login(c, e)
    \/ \E c \in Clients : CreateWork(SessionUser(c), "Photos", NoTheme)
    \/ \E c \in Clients, w \in WorkIds : ToggleFeatured(c, w)
    \/ \E c \in Clients : CreateTheme(SessionUser(c), "Photos", 1, 2)
    \/ \E c \in Clients, t \in ThemeIds :
            UpdateTheme(SessionUser(c), t, NoDate, 3, "")
    \/ \E c \in Clients, t \in ThemeIds : DeleteTheme(SessionUser(c), t)
    \/ \E c \in Clients : ApproveMember(c, "m1")
    \/ \E c \in Clients : AdminUpdateUser(c, "a", "member", NotSent)
    \/ \E c \in Clients : AdminUpdateUser(c, "m1", NotSent, "false")
    \/ \E c \in Clients, u \in {"a", "m1"} : AdminDeleteUser(c, u)
    \/ \E c \in Clients : DeleteOwnAccount(c)

SpecAdmin == InitStore /\ [][NextAdmin]_vars

----------------------------------------------------------------------------
(* Auth and users routes (Login Backend) *)

\* a registration that approves everybody
ApprovedAtRegistration_All(userType) == TRUE

\* userSchema.isApproved of the Login Backend: register stores false for a
\* member, the default approves a guest
ApprovedAtRegistration(userType) == userType = "guest"

\* POST /api/users/register (name, batch and cluster given, email well formed)
LbRegister(c, email, userType, upMail, position) ==
    /\ IF email = NoEmail
       THEN /\ resp' = AuthReply(c, "lbRegister", 400, NoUser)
            /\ UNCHANGED <<users, sessions>>
       ELSE IF userType = "member" /\ ~upMail
       THEN /\ resp' = AuthReply(c, "lbRegister", 400, email)
            /\ UNCHANGED <<users, sessions>>
       ELSE IF UserExists(email)
       THEN /\ resp' = AuthReply(c, "lbRegister", 409, email)
            /\ UNCHANGED <<users, sessions>>
       ELSE /\ email \in UserIds
            /\ users' = [users EXCEPT ![email] =
                    [exists |-> TRUE, userType |-> userType,
                     position |-> IF userType = "member" THEN position ELSE "",
                     isApproved |-> ApprovedAtRegistration(userType),
                     isActive |-> TRUE, email |-> email]]
            /\ sessions' = IF userType = "guest"
                           THEN [sessions EXCEPT ![c] =
                                    [userId |-> email, userType |-> userType]]
                           ELSE sessions
            /\ resp' = AuthReply(c, "lbRegister", 201, email)
    /\ snap' = NoSnap
    /\ listed' = NoListed
    /\ UNCHANGED <<now, works, nextWork, portfolios, votes, themes, vthemes,
                   ranked, reqs>>

\* POST /api/auth/login of the Login Backend
LbLogin(c, email, named) ==
    /\ IF email = NoEmail \/ ~named
       THEN /\ resp' = AuthReply(c, "lbLogin", 400, NoUser)
            /\ UNCHANGED sessions
       ELSE IF ~UserExists(email)
       THEN /\ resp' = AuthReply(c, "lbLogin", 404, email)
            /\ UNCHANGED sessions
       ELSE IF IsUnapprovedMember(email)
       THEN /\ resp' = AuthReply(c, "lbLogin", 403, email)
            /\ UNCHANGED sessions
       ELSE IF ~users[email].isActive
       THEN /\ resp' = AuthReply(c, "lbLogin", 403, email)
            /\ UNCHANGED sessions
       ELSE /\ sessions' = [sessions EXCEPT ![c] = SessionOf(email)]
            /\ resp' = AuthReply(c, "lbLogin", 200, email)
    /\ snap' = NoSnap
    /\ listed' = NoListed
    /\ UNCHANGED <<now, users, works, nextWork, portfolios, votes, themes,
                   vthemes, ranked, reqs>>

\* POST /api/auth/logout of the Login Backend
LbLogout(c) ==
    /\ sessions' = DestroySession(c)
    /\ resp' = AuthReply(c, "lbLogout", 200, sessions[c].userId)
    /\ snap' = NoSnap
    /\ listed' = NoListed
    /\ UNCHANGED <<now, users, works, nextWork, portfolios, votes, themes,
                   vthemes, ranked, reqs>>

\* GET /api/auth/verify of the Login Backend: isAuthenticated, then the user
LbVerify(c) ==
    /\ resp' = IF sessions[c].userId = NoUser
               THEN AuthReply(c, "lbVerify", 401, NoUser)
               ELSE IF ~UserExists(sessions[c].userId)
               THEN AuthReply(c, "lbVerify", 404, NoUser)
               ELSE AuthReply(c, "lbVerify", 200, sessions[c].userId)
    /\ snap' = NoSnap
    /\ listed' = NoListed
    /\ UNCHANGED <<sessions, now, users, works, nextWork, portfolios, votes,
                   themes, vthemes, ranked, reqs>>

\* PUT /api/users/:userId/approve: approved true approves, false rejects
LbApprove(c, u, approved) ==
    /\ IF sessions[c].userId = NoUser
       THEN /\ resp' = AuthReply(c, "lbApprove", 401, u)
            /\ UNCHANGED <<users, portfolios>>
       ELSE IF ~IsPresident(sessions[c].userId)
       THEN /\ resp' = AuthReply(c, "lbApprove", 403, u)
            /\ UNCHANGED <<users, portfolios>>
       ELSE IF ~UserExists(u)
       THEN /\ resp' = AuthReply(c, "lbApprove", 404, u)
            /\ UNCHANGED <<users, portfolios>>
       ELSE IF users[u].userType # "member"
       THEN /\ resp' = AuthReply(c, "lbApprove", 400, u)
            /\ UNCHANGED <<users, portfolios>>
       ELSE IF approved
       THEN /\ users' = [users EXCEPT ![u].isApproved = TRUE]
            /\ IF portfolios[u].exists
               THEN /\ resp' = AuthReply(c, "lbApprove", 500, u)
                    /\ UNCHANGED portfolios
               ELSE /\ portfolios' = [portfolios EXCEPT ![u] =
                            [exists |-> TRUE, works |-> {}, totalVotes |-> 0]]
                    /\ resp' = AuthReply(c, "lbApprove", 200, u)
       ELSE /\ users' = [users EXCEPT ![u] = NoUserDoc]
            /\ resp' = AuthReply(c, "lbReject", 200, u)
            /\ UNCHANGED portfolios
    /\ snap' = NoSnap
    /\ listed' = NoListed
    /\ UNCHANGED <<sessions, now, works, nextWork, votes, themes, vthemes,
                   ranked, reqs>>

\* PUT /api/users/:userId/reactivate (active TRUE) and /archive (active FALSE)
LbSetActive(c, u, active) ==
    /\ IF sessions[c].userId = NoUser
       THEN /\ resp' = AuthReply(c, "lbSetActive", 401, u)
            /\ UNCHANGED users
       ELSE IF ~IsPresident(sessions[c].userId)
       THEN /\ resp' = AuthReply(c, "lbSetActive", 403, u)
            /\ UNCHANGED users
       ELSE IF ~UserExists(u)
       THEN /\ resp' = AuthReply(c, "lbSetActive", 404, u)
            /\ UNCHANGED users
       ELSE /\ users' = [users EXCEPT ![u].isActive = active]
            /\ resp' = AuthReply(c, "lbSetActive", 200, u)
    /\ snap' = NoSnap
    /\ listed' = NoListed
    /\ UNCHANGED <<sessions, now, works, nextWork, portfolios, votes, themes,
                   vthemes, ranked, reqs>>

\* the Login Backend after start-up: the President "a", the approved member
\* "m1", nobody registered as "m2" yet, nobody logged in
InitLbAuth ==
    /\ now = 0
    /\ users = [LoginUsers EXCEPT !["m2"] = NoUserDoc]
    /\ works = [w \in WorkIds |-> NoWorkDoc]
    /\ nextWork = 1
    /\ portfolios = [u \in UserIds |->
            IF u = "m2" THEN NoPortfolio
            ELSE [exists |-> TRUE, works |-> {}, totalVotes |-> 0]]
    /\ votes = {}
    /\ themes = [t \in ThemeIds |-> NoThemeDoc]
    /\ vthemes = [t \in ThemeIds |-> NoVThemeDoc]
    /\ resp = NoResp
    /\ snap = NoSnap
    /\ ranked = NoRanked
    /\ listed = NoListed
    /\ reqs = <<>>
    /\ sessions = NoSessions

NextLbAuth ==
    \/ \E c \in Clients, t \in {"guest", "member"}, p \in {"Member"} :
            LbRegister(c, "m2", t, TRUE, p)
    \/ \E c \in Clients, e \in Emails, named \in BOOLEAN : LbLogin(c, e, named)
    \/ \E c \in Clients : LbLogout(c)
    \/ \E c \in Clients : LbVerify(c)
    \/ \E c \in Clients, u \in {"m1", "m2"}, ok \in BOOLEAN : LbApprove(c, u, ok)
    \/ \E c \in Clients, u \in {"m1", "m2"}, on \in BOOLEAN :
            LbSetActive(c, u, on)

SpecLbAuth == InitLbAuth /\ [][NextLbAuth]_vars

----------------------------------------------------------------------------
(* SpecSignup: signups of the Backend running concurrently.  The handler is  *)
(* split at its awaits: User.findOne, then newUser.save with the session.    *)
(* Here a User document has an _id of its own, apart from its email.         *)

SignupEmails == {"a", "new"}

\* User.findOne({ email })
UsersByEmail(email) == {u \in UserIds : users[u].exists /\ users[u].email = email}

\* a unique index that lets every document in
EmailIndexRejects_None(email) == FALSE

\* userSchema.email unique: the index refuses a second document with the email
EmailIndexRejects(email) == UsersByEmail(email) # {}

\* a signup that is in flight for client c
SignupReq(c, email, userType) ==
    [pc |-> "s_save", user |-> email, work |-> NoWork, theme |-> userType,
     owner |-> c, count |-> 0]

\* POST /api/auth/signup up to User.findOne (name, email and userType given, a
\* member with a UP address)
SignupFind(r, c, email, userType) ==
    /\ reqs[r].pc = "idle"
    /\ IF UsersByEmail(email) # {}
       THEN /\ resp' = AuthReply(c, "signup", 409, email)
            /\ UNCHANGED reqs
       ELSE /\ reqs' = [reqs EXCEPT ![r] = SignupReq(c, email, userType)]
            /\ UNCHANGED resp
    /\ UNCHANGED <<sessions, now, users, works, nextWork, portfolios, votes,
                   themes, vthemes, snap, ranked, listed>>

\* POST /api/auth/signup: newUser.save() and the auto-login; a duplicate key
\* throws and the catch answers 500
SignupSave(r) ==
    /\ reqs[r].pc = "s_save"
    /\ LET email == reqs[r].user
           userType == reqs[r].theme
           c == reqs[r].owner
       IN  IF EmailIndexRejects(email)
           THEN /\ resp' = AuthReply(c, "signup", 500, email)
                /\ UNCHANGED <<users, sessions>>
           ELSE \E u \in UserIds :
                /\ ~users[u].exists
                /\ users' = [users EXCEPT ![u] =
                        [exists |-> TRUE, userType |-> userType,
                         position |-> IF userType = "member" THEN "Member"
                                      ELSE "",
                         isApproved |-> userType \in {"guest", "member"},
                         isActive |-> TRUE, email |-> email]]
                /\ sessions' = IF userType \in {"guest", "member"}
                               THEN [sessions EXCEPT ![c] =
                                        [userId |-> u, userType |-> userType]]
                               ELSE sessions
                /\ resp' = AuthReply(c, "signup", 200, email)
    /\ reqs' = [reqs EXCEPT ![r] = Idle]
    /\ UNCHANGED <<now, works, nextWork, portfolios, votes, themes, vthemes,
                   snap, ranked, listed>>

\* the admin is registered, nobody else, no signup in flight
InitSignup ==
    /\ now = 0
    /\ users = [u \in UserIds |-> IF u = "a" THEN SeedUsers[u] ELSE NoUserDoc]
    /\ works = [w \in WorkIds |-> NoWorkDoc]
    /\ nextWork = 1
    /\ portfolios = [u \in UserIds |-> NoPortfolio]
    /\ votes = {}
    /\ themes = [t \in ThemeIds |-> NoThemeDoc]
    /\ vthemes = [t \in ThemeIds |-> NoVThemeDoc]
    /\ resp = NoResp
    /\ snap = NoSnap
    /\ ranked = NoRanked
    /\ listed = NoListed
    /\ reqs = [r \in ReqIds |-> Idle]
    /\ sessions = NoSessions

NextSignup ==
    \/ \E r \in ReqIds, c \in Clients, e \in SignupEmails,
          t \in {"guest", "member", "admin"} : SignupFind(r, c, e, t)
    \/ \E r \in ReqIds : SignupSave(r)

SpecSignup == InitSignup /\ [][NextSignup]_vars

----------------------------------------------------------------------------
(* SpecUpload: uploads (POST /api/works) running concurrently, the handler   *)
(* split at its awaits.                                                      *)

Uploaders == {"a", "m1", NoUser}

\* portfolioSchema.userId unique: the index refuses a second Portfolio of u
PortfolioIndexRejects(u) == portfolios[u].exists

\* POST /api/works: isAuthenticated, the field checks and User.findById
UploadFindUser(r, s, category) ==
    /\ reqs[r].pc = "idle"
    /\ IF s = NoUser
       THEN /\ resp' = Reply("createWork", 401, s, NoWork, NoTheme)
            /\ UNCHANGED reqs
       ELSE IF category \notin WorkCategories
       THEN /\ resp' = Reply("createWork", 400, s, NoWork, NoTheme)
            /\ UNCHANGED reqs
       ELSE IF ~users[s].exists
       THEN /\ resp' = Reply("createWork", 500, s, NoWork, NoTheme)
            /\ UNCHANGED reqs
       ELSE IF users[s].userType # "member"
       THEN /\ resp' = Reply("createWork", 403, s, NoWork, NoTheme)
            /\ UNCHANGED reqs
       ELSE /\ reqs' = [reqs EXCEPT ![r] =
                    [pc |-> "w_saveWork", user |-> s, work |-> NoWork,
                     theme |-> category, owner |-> s, count |-> 0]]
            /\ UNCHANGED resp
    /\ UNCHANGED <<sessions, now, users, works, nextWork, portfolios, votes,
                   themes, vthemes, snap, ranked, listed>>

\* POST /api/works: newWork.save()
UploadSaveWork(r) ==
    /\ reqs[r].pc = "w_saveWork"
    /\ nextWork <= MaxWorks
    /\ works' = [works EXCEPT ![nextWork] =
            [state |-> "live", userId |-> reqs[r].user,
             category |-> reqs[r].theme, voteCount |-> 0, themeId |-> NoTheme,
             createdAt |-> now, featured |-> FALSE]]
    /\ nextWork' = nextWork + 1
    /\ reqs' = [reqs EXCEPT ![r].pc = "w_findPortfolio", ![r].work = nextWork,
                            ![r].theme = NoTheme]
    /\ UNCHANGED <<sessions, now, users, portfolios, votes, themes, vthemes,
                   resp, snap, ranked, listed>>

\* POST /api/works: Portfolio.findOne({ userId }); count keeps whether a
\* document was found (1) or a new one is to be inserted (0)
UploadFindPortfolio(r) ==
    /\ reqs[r].pc = "w_findPortfolio"
    /\ reqs' = [reqs EXCEPT ![r].pc = "w_savePortfolio",
                    ![r].count = IF HasPortfolio(reqs[r].user) THEN 1 ELSE 0]
    /\ UNCHANGED <<sessions, now, users, works, nextWork, portfolios, votes,
                   themes, vthemes, resp, snap, ranked, listed>>

\* POST /api/works: portfolio.save() and the answer: a found document is
\* updated with a push of the new id, a new one is inserted and a duplicate
\* key throws into the catch (500)
UploadSavePortfolio(r) ==
    /\ reqs[r].pc = "w_savePortfolio"
    /\ LET s == reqs[r].user
           w == reqs[r].work
       IN  IF reqs[r].count = 1
           THEN /\ portfolios' = [portfolios EXCEPT ![s].works = @ \cup {w}]
                /\ Finish(r, "createWork", 201)
           ELSE IF PortfolioIndexRejects(s)
           THEN /\ UNCHANGED portfolios
                /\ Finish(r, "createWork", 500)
           ELSE /\ portfolios' = [portfolios EXCEPT ![s] =
                        [exists |-> TRUE, works |-> {w}, totalVotes |-> 0]]
                /\ Finish(r, "createWork", 201)
    /\ UNCHANGED <<sessions, now, users, works, nextWork, votes, themes,
                   vthemes, snap, ranked, listed>>

\* the seeded users, no work, no portfolio, no upload in flight
InitUpload ==
    /\ now = 0
    /\ users = SeedUsers
    /\ works = [w \in WorkIds |-> NoWorkDoc]
    /\ nextWork = 1
    /\ portfolios = [u \in UserIds |-> NoPortfolio]
    /\ votes = {}
    /\ themes = [t \in ThemeIds |-> NoThemeDoc]
    /\ vthemes = [t \in ThemeIds |-> NoVThemeDoc]
    /\ resp = NoResp
    /\ snap = NoSnap
    /\ ranked = NoRanked
    /\ listed = NoListed
    /\ reqs = [r \in ReqIds |-> Idle]
    /\ sessions = NoSessions

NextUpload ==
    \/ \E r \in ReqIds, s \in Uploaders, c \in {"Photos", "Videos", "Audio"} :
            UploadFindUser(r, s, c)
    \/ \E r \in ReqIds : UploadSaveWork(r)
    \/ \E r \in ReqIds : UploadFindPortfolio(r)
    \/ \E r \in ReqIds : UploadSavePortfolio(r)

SpecUpload == InitUpload /\ [][NextUpload]_vars

----------------------------------------------------------------------------
(* SpecCount: uploads, work updates, votes, unvotes and user deletions of    *)
(* the Backend, one request at a time                                        *)

\* an update that writes the counter as well
UpdatedWork_ResetCount(doc, category, featured, isAdminUser) ==
    [doc EXCEPT !.voteCount = 0]

\* PUT /api/works/:id, the fields written: category when sent (title,
\* description and fileUrl are not modelled), featured for an admin only
UpdatedWork(doc, category, featured, isAdminUser) ==
    [doc EXCEPT !.category = IF category = NotSent THEN @ ELSE category,
                !.featured = IF isAdminUser /\ featured # NotSent
                             THEN featured = "true" ELSE @]

\* PUT /api/works/:id; a category outside the enum fails validation in
\* work.save() and the catch answers 500
UpdateWork(s, w, category, featured) ==
    /\ IF s = NoUser
       THEN /\ resp' = Reply("updateWork", 401, s, w, NoTheme)
            /\ UNCHANGED works
       ELSE IF ~WorkExists(w)
       THEN /\ resp' = Reply("updateWork", 404, s, w, NoTheme)
            /\ UNCHANGED works
       ELSE IF ~users[s].exists
       THEN /\ resp' = Reply("updateWork", 500, s, w, NoTheme)
            /\ UNCHANGED works
       ELSE IF works[w].userId # s /\ users[s].userType # "admin"
       THEN /\ resp' = Reply("updateWork", 403, s, w, NoTheme)
            /\ UNCHANGED works
       ELSE IF category \notin WorkCategories \cup {NotSent}
       THEN /\ resp' = Reply("updateWork", 500, s, w, NoTheme)
            /\ UNCHANGED works
       ELSE /\ works' = [works EXCEPT ![w] =
                    UpdatedWork(@, category, featured,
                                users[s].userType = "admin")]
            /\ resp' = Reply("updateWork", 200, s, w, NoTheme)
    /\ snap' = NoSnap
    /\ listed' = NoListed
    /\ UNCHANGED <<sessions, now, users, nextWork, portfolios, votes, themes,
                   vthemes, ranked, reqs>>

\* the works the requests of this specification name
CountWorks == {1, 2}

NextCount ==
    \/ Login("c1", "a")
    \/ \E e \in {"m1", "m2"} : Login("c2", e)
    \/ CreateWork(SessionUser("c2"), "Photos", NoTheme)
    \/ \E c \in Clients, w \in CountWorks : Vote(SessionUser(c), w, NoTheme)
    \/ \E c \in Clients, w \in CountWorks : Unvote(SessionUser(c), w)
    \/ \E c \in Clients, w \in CountWorks, cat \in {"Graphics", "Audio"} :
            UpdateWork(SessionUser(c), w, cat, "true")
    \/ AdminDeleteUser("c1", "m1")
    \/ DeleteOwnAccount("c2")

SpecCount == InitStore /\ [][NextCount]_vars

----------------------------------------------------------------------------
(* Claims *)

\* the Vote whose key the last request names
RespKey == [userId |-> resp.user, workId |-> resp.work, themeId |-> resp.theme]

\* C1: a vote by a user who already holds a Vote for the same (work, theme)
\* key is answered 409, adds no Vote and leaves Work.voteCount and the owner's
\* Portfolio.totalVotes as they were.
C1_DuplicateVoteIs409 ==
    [][(resp'.op = "vote" /\ resp'.user # NoUser /\ RespKey' \in votes)
        => (/\ resp'.status = 409
            /\ votes' = votes
            /\ works' = works
            /\ portfolios' = portfolios)]_vars

\* C2: an unvote by a user who holds no Vote for that work is answered 404 and
\* leaves the Vote collection, Work.voteCount and Portfolio.totalVotes as they
\* were.
C2_UnvoteWithoutVoteIs404 ==
    [][(resp'.op = "unvote" /\ resp'.user # NoUser
            /\ VotesOf(resp'.user, resp'.work) = {})
        => (/\ resp'.status = 404
            /\ votes' = votes
            /\ works' = works
            /\ portfolios' = portfolios)]_vars

\* C2 witness: a 404 unvote on a work that other users have voted for
C2_Witness ==
    /\ resp.op = "unvote" /\ resp.status = 404 /\ resp.user # NoUser
    /\ WorkExists(resp.work) /\ works[resp.work].voteCount > 0
    /\ HasPortfolio(works[resp.work].userId)
    /\ portfolios[works[resp.work].userId].totalVotes > 0

\* C3: under every interleaving of vote and unvote requests, every
\* Work.voteCount and every Portfolio.totalVotes is at least zero.
C3_CountersNeverNegative ==
    /\ \A w \in WorkIds : works[w].voteCount >= 0
    /\ \A u \in UserIds : portfolios[u].totalVotes >= 0

\* C3 witness: an unvote that read a voteCount of zero (its vote's increment
\* not yet written) has saved the work, and the floor kept the counter at zero
C3_Witness ==
    \E r \in ReqIds :
        /\ reqs[r].pc = "u_findPortfolio"
        /\ reqs[r].count = 0
        /\ works[reqs[r].work].voteCount = 0

\* the status the lifecycle gives a theme with these dates at time T
StatusAt(T, startDate, endDate) ==
    IF T < startDate THEN "Upcoming"
    ELSE IF T <= endDate THEN "Active"
    ELSE "Ended"

\* C4: the status a theme carries in the response of a theme listing and of
\* a theme detail read is the one its dates give at the time of the read,
\* whatever status was stored (a step that leaves the clock alone and ends
\* with a read's response is that read).
C4_ReadStatusIsDerived ==
    [][(resp'.op \in {"listThemes", "getTheme"} /\ resp'.status = 200
            /\ now' = now)
        => \A t \in ThemeIds :
            listed'.status[t] # "-" =>
                listed'.status[t] =
                    StatusAt(now, themes'[t].startDate, themes'[t].endDate)]_vars

\* C5: after a successful DELETE /api/works/:id the deleted work's id is in
\* no Portfolio's works list and in no Theme's submissions list.
C5_DeletedWorkUnlinked ==
    (resp.op = "deleteWork" /\ resp.status = 200) =>
        /\ \A u \in UserIds : resp.work \notin portfolios[u].works
        /\ \A t \in ThemeIds : resp.work \notin themes[t].submissions

\* C6: a rankings read for a category returns only works of that category
\* (every work for 'All'), ordered by voteCount descending with equal counts
\* ordered by the earlier createdAt first, and at most limit entries.
C6_RankingsOrdered ==
    (resp.op = "rankings" /\ resp.status = 200) =>
        LET q == ranked.works
        IN  /\ \A i \in DOMAIN q :
                    /\ WorkExists(q[i])
                    /\ ranked.category # "All" =>
                            works[q[i]].category = ranked.category
            /\ \A i, j \in DOMAIN q : i < j =>
                    \/ works[q[i]].voteCount > works[q[j]].voteCount
                    \/ /\ works[q[i]].voteCount = works[q[j]].voteCount
                       /\ works[q[i]].createdAt <= works[q[j]].createdAt
            /\ Len(q) <= ranked.limit

\* C7: a successful vote adds exactly 1 to Work.voteCount and to the owner's
\* Portfolio.totalVotes, and a successful unvote by the same user on the same
\* work right after it restores both to their values before the vote.
C7_VoteThenUnvoteRestores ==
    /\ snap.stage = "voted" =>
            /\ works[snap.work].voteCount = snap.voteCount + 1
            /\ snap.hadPortfolio =>
                    portfolios[snap.owner].totalVotes = snap.totalVotes + 1
    /\ snap.stage = "unvoted" =>
            /\ works[snap.work].voteCount = snap.voteCount
            /\ snap.hadPortfolio =>
                    portfolios[snap.owner].totalVotes = snap.totalVotes

\* C7 witness: vote then unvote on a work whose counters were not zero
C7_Witness ==
    /\ snap.stage = "unvoted" /\ snap.hadPortfolio
    /\ snap.voteCount > 0 /\ snap.totalVotes > 0
    /\ resp.op = "unvote" /\ resp.status = 200

\* C8: a read of voting themes, listing or detail, that changes a theme's
\* stored status from upcoming or active to closed leaves the theme with a
\* winner whenever at least one Vote scoped to the theme exists.
C8_ClosingReadSetsWinner ==
    [][\A t \in ThemeIds :
        (/\ resp'.op \in {"vListThemes", "vGetTheme"}
         /\ vthemes[t].state = "live"
         /\ vthemes[t].status \in {"upcoming", "active"}
         /\ vthemes'[t].status = "closed"
         /\ ThemeVotes(t) # {})
        => vthemes'[t].winnerWorkId # NoWork]_vars

\* C9: when winner determination runs for a theme, the stored winner is a
\* Work among the theme's submissions whose number of Votes scoped to the
\* theme is at least that of every other Work; with no theme-scoped Votes
\* the winner stays unset.
C9_WinnerIsTopSubmission ==
    [][\A t \in ThemeIds :
        (resp'.op = "vListThemes" /\ t \in listed'.determined) =>
            IF ThemeVotes(t) = {}
            THEN vthemes'[t].winnerWorkId = NoWork
            ELSE LET w == vthemes'[t].winnerWorkId
                 IN  /\ WorkExists(w)
                     /\ works[w].themeId = t
                     /\ \A x \in WorkIds \ {w} :
                            ThemeVoteCount(t, w) >= ThemeVoteCount(t, x)]_vars

\* C10: once a theme's winner is set, no vote, unvote, read or admin theme
\* update that follows changes it.
C10_WinnerNeverChanges ==
    [][\A t \in ThemeIds :
        (/\ resp'.op \in {"vote", "unvote", "vListThemes", "vGetTheme",
                          "vUpdateTheme"}
         /\ vthemes[t].state = "live"
         /\ vthemes'[t].state = "live"
         /\ vthemes[t].winnerWorkId # NoWork)
        => vthemes'[t].winnerWorkId = vthemes[t].winnerWorkId]_vars

\* C11: under every interleaving of concurrent vote requests the Vote
\* collection holds at most one document per (user, work) pair with no theme
\* and at most one per (user, work, theme) triple with a theme.
C11_OneVotePerKey ==
    \A v1, v2 \in votes :
        (/\ v1.userId = v2.userId
         /\ v1.workId = v2.workId
         /\ v1.themeId = v2.themeId) => v1 = v2

\* C11 witness: two requests passed the pre-check for the same user and
\* work, one stored its Vote and the save of the other was rejected
C11_Witness ==
    /\ resp.op = "vote" /\ resp.status = 500
    /\ Cardinality(VotesOf(resp.user, resp.work)) = 1

\* the outcome of one login request of the Login Backend that carried an
\* email and a name, without the condition under which it succeeds
LoginOutcome(u, c) ==
    /\ resp'.status = 200 =>
            sessions' = [sessions EXCEPT ![c] =
                            [userId |-> u, userType |-> users[u].userType]]
    /\ ~UserExists(u) => resp'.status = 404
    /\ (/\ UserExists(u)
        /\ users[u].userType = "member"
        /\ ~users[u].isApproved) => resp'.status = 403
    /\ resp'.status \in {403, 404} => sessions' = sessions

\* C12 (as amended): a login with an email and a name establishes the session
\* {userId, userType} of user u exactly when a user u with that email exists,
\* u is not an unapproved member and u has not been archived (isActive); it is
\* answered 404 when no such user exists and 403 when u is an unapproved
\* member, and a 403 or 404 leaves every session as it was.
C12_LoginIffApprovedAndActive ==
    [][(resp'.op = "lbLogin" /\ resp'.status # 400) =>
        /\ LoginOutcome(resp'.user, resp'.client)
        /\ resp'.status = 200 <=>
                /\ UserExists(resp'.user)
                /\ ~(/\ users[resp'.user].userType = "member"
                     /\ ~users[resp'.user].isApproved)
                /\ users[resp'.user].isActive]_vars

\* C12 as stated: the login succeeds exactly when the user exists and is not
\* an unapproved member
C12_LoginIffApproved ==
    [][(resp'.op = "lbLogin" /\ resp'.status # 400) =>
        /\ LoginOutcome(resp'.user, resp'.client)
        /\ resp'.status = 200 <=>
                /\ UserExists(resp'.user)
                /\ ~(/\ users[resp'.user].userType = "member"
                     /\ ~users[resp'.user].isApproved)]_vars

\* C12 witness: an approved member the President archived asked to log in and
\* was answered 403, the session of the client still without a user
C12_Witness ==
    /\ resp.op = "lbLogin" /\ resp.status = 403
    /\ UserExists(resp.user)
    /\ users[resp.user].isApproved
    /\ ~users[resp.user].isActive
    /\ sessions[resp.client] = NoSession

\* C13: a logout destroys the session record of its client, and from then on,
\* as long as no login and no signup of that client succeeds, the session
\* stays without a user: a request behind isAuthenticated is answered 401 and
\* verify answers success: false (no user).
C13_LoggedOutUntilLogin ==
    [][\A c \in Clients :
        /\ (resp'.op = "logout" /\ resp'.client = c) =>
                sessions'[c] = NoSession
        /\ (/\ sessions[c] = NoSession
            /\ ~(/\ resp'.client = c
                 /\ resp'.op \in {"login", "signup"}
                 /\ resp'.status = 200)) => sessions'[c] = NoSession
        /\ (/\ sessions[c] = NoSession
            /\ resp'.client = c
            /\ resp'.op = "getProfile") => resp'.status = 401
        /\ (/\ sessions[c] = NoSession
            /\ resp'.client = c
            /\ resp'.op = "verify") => resp'.user = NoUser]_vars

\* C13 witness: a client that was logged in as an existing user has logged out
C13_Witness ==
    /\ resp.op = "logout" /\ resp.status = 200
    /\ UserExists(resp.user)
    /\ sessions[resp.client] = NoSession

\* C14: a verify on a session whose userId names a User that no longer exists
\* answers success: false and destroys the session, so the client is
\* unauthenticated afterwards (Login Backend).
C14_VerifyDestroysOrphanSession ==
    [][\A c \in Clients :
        (/\ resp'.op = "lbVerify"
         /\ resp'.client = c
         /\ sessions[c].userId # NoUser
         /\ ~UserExists(sessions[c].userId)) =>
            /\ resp'.user = NoUser
            /\ sessions'[c] = NoSession]_vars

\* the requests behind isAuthenticated and isAdmin
AdminOps ==
    {"createTheme", "updateTheme", "deleteTheme", "toggleFeatured", "approve",
     "adminUpdateUser", "adminDeleteUser"}

\* the user of the session the last request carried, as it was when the
\* request arrived
RequestUser ==
    IF resp'.client = NoClient THEN resp'.user
    ELSE sessions[resp'.client].userId

\* C15: a request to an admin-guarded route changes stored state only when its
\* session has a userId and the User loaded for it has userType admin at that
\* moment; without a session user it is answered 401, with a session user who
\* is not (or no longer) an admin 403, and in both cases nothing stored changes.
C15_AdminGuard ==
    [][resp'.op \in AdminOps =>
        LET s == RequestUser
            admin == /\ s \in UserIds
                     /\ users[s].exists
                     /\ users[s].userType = "admin"
            same == <<users, works, portfolios, votes, themes, sessions>>'
                        = <<users, works, portfolios, votes, themes, sessions>>
        IN  /\ s = NoUser => (resp'.status = 401 /\ same)
            /\ (s # NoUser /\ ~admin) => (resp'.status = 403 /\ same)
            /\ ~same => admin]_vars

\* C15 witness: a client logged in as admin, whose User has since been made a
\* member, asked to feature a work and was answered 403
C15_Witness ==
    /\ resp.op = "toggleFeatured" /\ resp.status = 403
    /\ WorkExists(resp.work)
    /\ sessions[resp.client].userType = "admin"
    /\ UserExists(sessions[resp.client].userId)
    /\ users[sessions[resp.client].userId].userType = "member"

\* the preconditions of a submission of work w to theme t by session user s
CanSubmit(s, t, w) ==
    /\ s # NoUser
    /\ t \in ThemeIds /\ themes[t].state = "live"
    /\ themes[t].status = "Active"
    /\ w \in WorkIds /\ works[w].state = "live"
    /\ works[w].userId = s
    /\ (themes[t].category = "All" \/ works[w].category = themes[t].category)
    /\ w \notin themes[t].submissions

\* C16: a submit request changes state only if the theme exists, its stored
\* status is Active, the session user owns the work, the categories agree (or
\* the theme takes All) and the work is not yet submitted; then the work id is
\* added to Theme.submissions and Work.themeId is set to the theme.  If any of
\* them fails, the Theme and Work collections stay as they were.
C16_SubmitPreconditions ==
    [][(resp'.op = "submit" /\ now' = now) =>
        IF CanSubmit(resp'.user, resp'.theme, resp'.work)
        THEN /\ resp'.status = 200
             /\ themes' = [themes EXCEPT ![resp'.theme].submissions =
                                @ \cup {resp'.work}]
             /\ works' = [works EXCEPT ![resp'.work].themeId = resp'.theme]
        ELSE /\ resp'.status # 200
             /\ themes' = themes
             /\ works' = works]_vars

\* C16 witness: a Graphics work was submitted by its owner to an Active theme
\* of category All
C16_Witness ==
    /\ resp.op = "submit" /\ resp.status = 200
    /\ themes[resp.theme].category = "All"
    /\ works[resp.work].category = "Graphics"
    /\ works[resp.work].themeId = resp.theme
    /\ resp.work \in themes[resp.theme].submissions

\* C17: a User record is removed only by an account deletion (the user's own
\* or the admin's), and the deletion leaves no Portfolio and no Work of that
\* user behind.
C17_UserRemovedOnlyByAccountDeletion ==
    [][\A u \in UserIds :
        (users[u].exists /\ ~users'[u].exists) =>
            /\ resp'.op \in {"deleteOwnAccount", "adminDeleteUser"}
            /\ resp'.status = 200
            /\ ~portfolios'[u].exists
            /\ \A w \in WorkIds :
                    ~(works'[w].state = "live" /\ works'[w].userId = u)]_vars

\* C18: every Vote in the store names an existing User and an existing Work.
C18_VotesReferToExisting ==
    \A v \in votes : UserExists(v.userId) /\ WorkExists(v.workId)

\* the place of a status in the order Upcoming, Active, Ended
StatusRank(status) ==
    IF status = "Upcoming" THEN 0 ELSE IF status = "Active" THEN 1 ELSE 2

\* C19: the stored status of a theme changes only forward along Upcoming,
\* Active, Ended, and only to the status derived from the current time and
\* the theme's dates.
C19_StatusFollowsTime ==
    [][\A t \in ThemeIds :
        (/\ themes[t].state = "live"
         /\ themes'[t].state = "live"
         /\ themes'[t].status # themes[t].status) =>
            /\ StatusRank(themes'[t].status) > StatusRank(themes[t].status)
            /\ themes'[t].status =
                    StatusAt(now', themes'[t].startDate, themes'[t].endDate)]_vars

\* the last request was a submission or a vote that named theme t
NamesTheme(t) == resp'.op \in {"submit", "vote"} /\ resp'.theme = t

\* C20: a submission to a theme whose stored status is Ended and a vote scoped
\* to such a theme are rejected, and leave the Theme, Vote, Work and Portfolio
\* collections (submissions, votes, voteCount, totalVotes) as they were.
C20_EndedThemeRejects ==
    [][\A t \in ThemeIds :
        (/\ themes[t].state = "live"
         /\ themes[t].status = "Ended"
         /\ now' = now
         /\ NamesTheme(t)) =>
            /\ resp'.status # 200
            /\ <<themes, votes, works, portfolios>>'
                    = <<themes, votes, works, portfolios>>]_vars

\* C21: in the Login Backend a registered member is stored unapproved and gets
\* no session, a registered guest is stored approved and is logged in; a
\* member logs in only while approved, and an unapproved member becomes
\* approved only by the approval request of a President for that user.  So an
\* approval precedes every successful login of a registered member.
C21_ApprovalBeforeMemberLogin ==
    [][/\ (resp'.op = "lbRegister" /\ resp'.status = 201) =>
            IF users'[resp'.user].userType = "member"
            THEN /\ ~users'[resp'.user].isApproved
                 /\ sessions' = sessions
            ELSE /\ users'[resp'.user].isApproved
                 /\ sessions'[resp'.client] =
                        [userId |-> resp'.user, userType |-> "guest"]
       /\ (/\ resp'.op = "lbLogin"
           /\ resp'.status = 200
           /\ users[resp'.user].userType = "member") =>
                users[resp'.user].isApproved
       /\ \A u \in UserIds :
            (/\ users[u].exists /\ users'[u].exists
             /\ users[u].userType = "member"
             /\ ~users[u].isApproved
             /\ users'[u].isApproved) =>
                /\ resp'.op = "lbApprove"
                /\ resp'.user = u
                /\ sessions[resp'.client].userId \in UserIds
                /\ users[sessions[resp'.client].userId].position
                        = "President"]_vars

\* C21 witness: m2 registered as a member, was approved and has logged in
C21_Witness ==
    /\ resp.op = "lbLogin" /\ resp.status = 200 /\ resp.user = "m2"
    /\ users["m2"].userType = "member"
    /\ sessions[resp.client].userId = "m2"

C23_VoteWritesReadValuePlusOne ==
    [][\A r \in ReqIds :
        /\ (reqs[r].pc = "v_saveWork" /\ reqs'[r].pc = "v_findPortfolio") =>
                works'[reqs[r].work].voteCount = reqs[r].count + 1
        /\ (reqs[r].pc = "v_savePortfolio" /\ reqs'[r].pc = "idle") =>
                portfolios'[reqs[r].owner].totalVotes = reqs[r].count + 1]_vars

\* C23 witness: both requests have answered, the Votes of two users on work 1
\* are stored, and voteCount and totalVotes went from 0 to 1
C23_Witness ==
    /\ \A r \in ReqIds : reqs[r].pc = "idle"
    /\ resp.op = "vote" /\ resp.status = 200
    /\ {v.userId : v \in {x \in votes : x.workId = 1}} = {"a", "m2"}
    /\ works[1].voteCount = 1
    /\ portfolios["m1"].totalVotes = 1

\* the requests that are past the findOneAndDelete of an unvote
UnvotePcs == {"u_findWork", "u_saveWork", "u_findPortfolio", "u_savePortfolio"}

\* C24: an unvote goes on to the counters only by removing a matching Vote in
\* the step that found it, and an unvote that finds none answers 404 and
\* changes nothing; a request that removed a Vote lowers each counter it read
\* by one, once.  So of two concurrent unvotes for one stored Vote exactly
\* one deletes and decrements and the other answers NotFound.
C24_OneUnvoteDeletes ==
    [][/\ \A r \in ReqIds :
            (reqs[r].pc = "idle" /\ reqs'[r].pc = "u_findWork") =>
                /\ VotesOf(reqs'[r].user, reqs'[r].work) # {}
                /\ Cardinality(votes') = Cardinality(votes) - 1
                /\ {v \in votes' : /\ v.userId = reqs'[r].user
                                   /\ v.workId = reqs'[r].work} = {}
       /\ (/\ resp'.op = "unvote" /\ reqs' = reqs /\ resp'.user # NoUser
           /\ VotesOf(resp'.user, resp'.work) = {}) =>
                /\ resp'.status = 404
                /\ votes' = votes /\ works' = works /\ portfolios' = portfolios
       /\ \A r \in ReqIds :
            /\ (reqs[r].pc = "u_saveWork" /\ reqs'[r].pc = "u_findPortfolio") =>
                    works'[reqs[r].work].voteCount = Max(reqs[r].count - 1, 0)
            /\ (reqs[r].pc = "u_savePortfolio" /\ reqs'[r].pc = "idle") =>
                    portfolios'[reqs[r].owner].totalVotes =
                        Max(reqs[r].count - 1, 0)]_vars

\* C24 witness: the only Vote of a on work 1 is gone, one unvote of it is in
\* flight past the delete, and the other unvote was answered 404
C24_Witness ==
    /\ resp.op = "unvote" /\ resp.status = 404
    /\ resp.user = "a" /\ resp.work = 1
    /\ \E r \in ReqIds : /\ reqs[r].pc \in UnvotePcs
                         /\ reqs[r].user = "a" /\ reqs[r].work = 1
    /\ \A r \in ReqIds : reqs[r].pc \in UnvotePcs \cup {"idle"}

\* C25: once no upload is in flight, every Work that an upload created is in
\* the works list of its owner's Portfolio, also when one member sent two
\* uploads concurrently; and a Work is created for a member only.
C25_CreatedWorkInPortfolio ==
    (\A r \in ReqIds : reqs[r].pc = "idle") =>
        \A w \in WorkIds : WorkExists(w) =>
            /\ users[works[w].userId].userType = "member"
            /\ HasPortfolio(works[w].userId)
            /\ w \in portfolios[works[w].userId].works

\* C26: with requests handled one at a time (uploads, votes, unvotes, work
\* updates, user deletions), the voteCount of every existing Work is the
\* number of Vote documents with its workId.
C26_VoteCountIsNumberOfVotes ==
    \A w \in WorkIds : WorkExists(w) =>
        works[w].voteCount = Cardinality({v \in votes : v.workId = w})

\* C26 witness: a work that was updated carries two votes, one of them cast by
\* a user whose account is deleted since
C26_Witness ==
    \E w \in WorkIds :
        /\ WorkExists(w) /\ works[w].voteCount = 2
        /\ works[w].category = "Graphics"
        /\ \E v \in votes : v.workId = w /\ ~users[v.userId].exists

\* the sum of voteCount over a set of works
RECURSIVE SumVoteCount(_)
SumVoteCount(S) ==
    IF S = {} THEN 0
    ELSE LET w == CHOOSE x \in S : TRUE
         IN  works[w].voteCount + SumVoteCount(S \ {w})

\* C27: with requests handled one at a time, the totalVotes of every
\* Portfolio is the sum of voteCount over the Works in its works list.
C27_TotalVotesIsSumOfWorks ==
    \A u \in UserIds : HasPortfolio(u) =>
        portfolios[u].totalVotes = SumVoteCount(portfolios[u].works)

\* C28: the link between works and themes is bidirectional: for every
\* existing Work w and Theme t, w is in t.submissions if and only if w.themeId
\* is t.
C28_ThemeLinkBidirectional ==
    \A w \in WorkIds, t \in ThemeIds :
        (WorkExists(w) /\ ThemeExists(t)) =>
            (w \in themes[t].submissions <=> works[w].themeId = t)

\* C29: with signups, logins and own-profile edits only, and the admin of the
\* initial state never acting, no client holds a session that passes isAdmin.
C29_NoSelfMadeAdmin ==
    \A c \in Clients :
        ~(/\ sessions[c].userId \in UserIds
          /\ users[sessions[c].userId].exists
          /\ users[sessions[c].userId].userType = "admin")

\* C30: a theme listing filtered by status S, read at time T, returns exactly
\* the themes whose status derived from T and their dates is S, and every
\* returned theme carries the status S.
C30_FilteredListingIsDerived ==
    [][(resp'.op = "listThemes" /\ now' = now /\ listed'.filter # "All")
        => \A t \in ThemeIds : ThemeExists(t) =>
            /\ (listed'.status[t] # "-") <=>
                    (StatusAt(now, themes[t].startDate, themes[t].endDate)
                        = listed'.filter)
            /\ listed'.status[t] \in {"-", listed'.filter}]_vars

====
